---- MODULE Spec2Model ----
(***************************************************************************)
(* State-machine model of the STDP protocol of the memristor test suite    *)
(* (src/stdp_tester.py): the dual-channel sequence generator, the          *)
(* source/measure loop of run_stdp_test, the block extraction and delta    *)
(* computation of process_measurement_data, and the run_test driver.       *)
(*                                                                         *)
(* Units.  Voltages are integers in units of 1e-4 V, currents are integers *)
(* in units of 1e-21 A, wall-clock time is an integer number of ticks.     *)
(* A mean current or a delta_g is an exact fraction [num, den], den > 0.   *)
(***************************************************************************)
EXTENDS Integers, Sequences, FiniteSets, TLC

(***************************************************************************)
(* Bounds of the model.                                                    *)
(***************************************************************************)
MaxSeqLen == 3
MaxJitter == 1
MaxStream == 4
MaxNum == 2
MaxTimes == 2

(***************************************************************************)
(* Program constants (StdpTester.__init__, and the literals of             *)
(* process_measurement_data).                                              *)
(***************************************************************************)
V_read == 1000
V_spike == 5000
V_rest == 0
V_time == 0
V_stop == 0
V_active == 0
Atol == 100
RtolInv == 100000
Eps == 10

(***************************************************************************)
(* Arithmetic helpers.                                                     *)
(***************************************************************************)
Abs(x) == IF x < 0 THEN -x ELSE x

Min(a, b) == IF a < b THEN a ELSE b

Max(a, b) == IF a < b THEN b ELSE a

SeqsUpTo(S, n) == UNION {[1..k -> S] : k \in 0..n}

NonEmptySeqsUpTo(S, n) == UNION {[1..k -> S] : k \in 1..n}

Range(s) == {s[k] : k \in DOMAIN s}

VARIABLES
  pc,         \* control position of the program
  self,       \* attributes of the StdpTester object
  keithley,   \* instrument: output state of both channels, fault flag
  log,        \* commands the instrument has received, in order
  clock,      \* wall clock, time.time()
  jitter,     \* number of slow dwell periods in the current run
  run,        \* frame of run_stdp_test
  ret,        \* value run_stdp_test handed to its caller
  proc,       \* frame of process_measurement_data
  rt,         \* frame of run_test
  gen,        \* frame of generate_voltage_sequences
  pts,        \* frame of generate_custom_sine_points
  cls         \* frame of determine_m_type

vars ==
  <<pc, self, keithley, log, clock, jitter, run, ret, proc, rt, gen, pts, cls>>

(***************************************************************************)
(* StdpTester.__init__: the default attributes.                            *)
(***************************************************************************)
DefaultSelf ==
  [ V_read |-> V_read, read_num |-> 5, V_spike |-> V_spike, spike_num |-> 5,
    V_active |-> V_active, active_num |-> 1, V_rest |-> V_rest,
    V_time |-> V_time, V_stop |-> V_stop, stop_num |-> 5,
    time_num |-> <<0, 10, 40>>, pre_before_post |-> TRUE ]

InitKeithley == [outA |-> FALSE, outB |-> FALSE, fault |-> FALSE]

\* what a caller holds after the call: nothing, or the returned array
NoReturn == [returned |-> FALSE, value |-> <<>>]

Returned(v) == [returned |-> TRUE, value |-> v]

EmptyRun ==
  [ pre_sequence |-> <<>>, post_sequence |-> <<>>, chanA_seq |-> <<>>,
    chanB_seq |-> <<>>, length |-> 0, i |-> 0, vA |-> 0, vB |-> 0,
    iA_str |-> 0, iB_str |-> 0, start |-> 0, data |-> <<>> ]

(***************************************************************************)
(* generate_voltage_sequences                                              *)
(***************************************************************************)
\* [v]*n: the empty list when n <= 0
Rep(v, n) == [k \in 1..n |-> v]

\* int(t_1) for a timing value given in halves: truncation towards zero
IntOf(h) == IF h >= 0 THEN h \div 2 ELSE -((-h) \div 2)

\* the steps one timing value adds to pre_seq
PreSection(slf, t_1) ==
  Rep(slf.V_read, slf.read_num)
  \o Rep(slf.V_spike, slf.spike_num)
  \o Rep(slf.V_rest, slf.active_num + slf.spike_num)
  \o Rep(slf.V_time, IntOf(t_1))
  \o Rep(slf.V_active, slf.active_num)
  \o Rep(slf.V_read, slf.read_num)
  \o Rep(slf.V_stop, slf.stop_num)

\* the steps one timing value adds to post_seq
PostSectionNoActive(slf, t_1) ==
  Rep(slf.V_rest, slf.read_num + slf.spike_num)
  \o Rep(slf.V_time, IntOf(t_1))
  \o Rep(slf.V_spike, slf.spike_num)
  \o Rep(slf.V_rest, slf.active_num + slf.read_num)
  \o Rep(slf.V_active, slf.active_num)
  \o Rep(slf.V_stop, slf.stop_num)

PostSectionShortRest(slf, t_1) ==
  Rep(slf.V_rest, slf.read_num + slf.spike_num)
  \o Rep(slf.V_active, slf.active_num)
  \o Rep(slf.V_time, IntOf(t_1))
  \o Rep(slf.V_spike, slf.spike_num)
  \o Rep(slf.V_rest, slf.read_num)
  \o Rep(slf.V_stop, slf.stop_num)

PostSection(slf, t_1) ==
  Rep(slf.V_rest, slf.read_num + slf.spike_num)
  \o Rep(slf.V_active, slf.active_num)
  \o Rep(slf.V_time, IntOf(t_1))
  \o Rep(slf.V_spike, slf.spike_num)
  \o Rep(slf.V_rest, slf.active_num + slf.read_num)
  \o Rep(slf.V_stop, slf.stop_num)

\* the loop over self.time_num, from its n-th value on; section_start keeps
\* len(pre_seq) and len(post_seq) at the top of each iteration
RECURSIVE GenerateFrom(_, _, _)
GenerateFrom(slf, n, acc) ==
  IF n > Len(slf.time_num) THEN acc
  ELSE GenerateFrom(slf, n + 1,
         [ pre_seq |-> acc.pre_seq \o PreSection(slf, slf.time_num[n]),
           post_seq |-> acc.post_seq \o PostSection(slf, slf.time_num[n]),
           section_start |-> Append(acc.section_start,
                                    [pre |-> Len(acc.pre_seq),
                                     post |-> Len(acc.post_seq)]),
           called |-> TRUE ])

EmptyGen ==
  [pre_seq |-> <<>>, post_seq |-> <<>>, section_start |-> <<>>, called |-> FALSE]

GenerateVoltageSequences(slf) ==
  GenerateFrom(slf, 1, [EmptyGen EXCEPT !.called = TRUE])

\* a call of generate_voltage_sequences
GenerateCall ==
  /\ pc = "call_generate"
  /\ gen' = GenerateVoltageSequences(self)
  /\ pc' = "generated"
  /\ UNCHANGED <<self, keithley, log, clock, jitter, run, ret, proc, rt, pts, cls>>

(***************************************************************************)
(* run_stdp_test                                                           *)
(***************************************************************************)
Cmd(op, ch, val) == [op |-> op, ch |-> ch, val |-> val]

\* length=min(len(chanA_seq), len(chanB_seq))
LoopLengthOffByOne(chanA, chanB) == Min(Len(chanA), Len(chanB)) - 1

LoopLength(chanA, chanB) == Min(Len(chanA), Len(chanB))

\* a re-base on the time of the last row
RebaseByLast(data) ==
  IF data = <<>> THEN data
  ELSE [k \in DOMAIN data |-> [data[k] EXCEPT !.Time = @ - data[Len(data)].Time]]

\* if data: t0=data[0][0]; for row in data: row[0]-=t0
Rebase(data) ==
  IF data = <<>> THEN data
  ELSE [k \in DOMAIN data |-> [data[k] EXCEPT !.Time = @ - data[1].Time]]

\* _reset_and_setup_keithley
ResetAndSetup ==
  /\ pc = "call_run"
  /\ keithley' = [keithley EXCEPT !.outA = TRUE]
  /\ log' = log \o <<Cmd("reset", "smua", 0), Cmd("setup", "smua", 0),
                     Cmd("output", "smua", 1)>>
  /\ jitter' = 0
  /\ pc' = "setup_writes"
  /\ UNCHANGED <<self, clock, run, ret, proc, rt, gen, pts, cls>>

\* the four smu.write calls before the loop, the channel assignment,
\* data=[], start=time.time(), length=min(...)
SetupWrites ==
  /\ pc = "setup_writes"
  /\ keithley' = [keithley EXCEPT !.outA = TRUE, !.outB = TRUE]
  /\ log' = log \o <<Cmd("func", "smua", 0), Cmd("func", "smub", 0),
                     Cmd("output", "smua", 1), Cmd("output", "smub", 1)>>
  /\ LET chanA == IF self.pre_before_post THEN run.pre_sequence
                                          ELSE run.post_sequence
         chanB == IF self.pre_before_post THEN run.post_sequence
                                          ELSE run.pre_sequence
     IN run' = [run EXCEPT !.chanA_seq = chanA, !.chanB_seq = chanB,
                           !.data = <<>>, !.start = clock, !.i = 0,
                           !.length = LoopLength(chanA, chanB)]
  /\ pc' = "loop"
  /\ UNCHANGED <<self, clock, jitter, ret, proc, rt, gen, pts, cls>>

\* vA=chanA_seq[i]; vB=chanB_seq[i]; smu.write("smua.source.levelv = vA")
SetLevelA ==
  /\ pc = "loop"
  /\ run.i < run.length
  /\ run' = [run EXCEPT !.vA = run.chanA_seq[run.i + 1],
                        !.vB = run.chanB_seq[run.i + 1]]
  /\ log' = Append(log, Cmd("levelv", "smua", run.chanA_seq[run.i + 1]))
  /\ pc' = "levelB"
  /\ UNCHANGED <<self, keithley, clock, jitter, ret, proc, rt, gen, pts, cls>>

\* smu.write("smub.source.levelv = vB")
SetLevelB ==
  /\ pc = "levelB"
  /\ log' = Append(log, Cmd("levelv", "smub", run.vB))
  /\ pc' = "sleep"
  /\ UNCHANGED <<self, keithley, clock, jitter, run, ret, proc, rt, gen, pts, cls>>

\* a loop that reads back without waiting
SleepSkipped ==
  /\ pc = "sleep"
  /\ pc' = "queryA"
  /\ UNCHANGED <<self, keithley, log, clock, jitter, run, ret, proc, rt, gen,
                 pts, cls>>

\* time.sleep(self.off_time): the dwell takes one tick, or two when slow
Sleep ==
  /\ pc = "sleep"
  /\ \/ /\ clock' = clock + 1
        /\ UNCHANGED jitter
     \/ /\ jitter < MaxJitter
        /\ clock' = clock + 2
        /\ jitter' = jitter + 1
  /\ pc' = "queryA"
  /\ UNCHANGED <<self, keithley, log, run, ret, proc, rt, gen, pts, cls>>

\* iA_str=smu.query("print(smua.measure.i())")
QueryA(ReadingsA) ==
  /\ pc = "queryA"
  /\ \E r \in ReadingsA : run' = [run EXCEPT !.iA_str = r]
  /\ log' = Append(log, Cmd("measure", "smua", 0))
  /\ pc' = "queryB"
  /\ UNCHANGED <<self, keithley, clock, jitter, ret, proc, rt, gen, pts, cls>>

\* iB_str=smu.query("print(smub.measure.i())")
QueryB(ReadingsB) ==
  /\ pc = "queryB"
  /\ \E r \in ReadingsB : run' = [run EXCEPT !.iB_str = r]
  /\ log' = Append(log, Cmd("measure", "smub", 0))
  /\ pc' = "append"
  /\ UNCHANGED <<self, keithley, clock, jitter, ret, proc, rt, gen, pts, cls>>

\* iA=float(...); iB=float(...); t_now=time.time()-start; data.append(...)
AppendSample ==
  /\ pc = "append"
  /\ run' = [run EXCEPT
               !.data = Append(@, [Time |-> clock - run.start, vA |-> run.vA,
                                   vB |-> run.vB, iA |-> run.iA_str,
                                   iB |-> run.iB_str]),
               !.i = @ + 1]
  /\ log' = Append(log, Cmd("append", "data", run.i))
  /\ pc' = "loop"
  /\ UNCHANGED <<self, keithley, clock, jitter, ret, proc, rt, gen, pts, cls>>

\* after the loop: both outputs off
OutputOff ==
  /\ pc = "loop"
  /\ run.i >= run.length
  /\ keithley' = [keithley EXCEPT !.outA = FALSE, !.outB = FALSE]
  /\ log' = log \o <<Cmd("output", "smua", 0), Cmd("output", "smub", 0)>>
  /\ pc' = "rebase"
  /\ UNCHANGED <<self, clock, jitter, run, ret, proc, rt, gen, pts, cls>>

\* the time re-base and the return
RebaseReturn ==
  /\ pc = "rebase"
  /\ run' = [run EXCEPT !.data = Rebase(@)]
  /\ ret' = Returned(Rebase(run.data))
  /\ pc' = "returned"
  /\ UNCHANGED <<self, keithley, log, clock, jitter, proc, rt, gen, pts, cls>>

(***************************************************************************)
(* An instrument communication failure: smu.write or smu.query raises.     *)
(* run_stdp_test has no try/except/finally, and neither has run_test, so   *)
(* the exception leaves every frame: nothing is returned, and the lines    *)
(* after the failing call (output off, re-base) do not run.                *)
(***************************************************************************)
IOPoints == {"setup_writes", "loop", "levelB", "queryA", "queryB"}

PropagateReturningPartial ==
  /\ ret' = Returned(Rebase(run.data))
  /\ pc' = "returned"

Propagate ==
  /\ ret' = NoReturn
  /\ pc' = "raised"

InstrumentFailure ==
  /\ pc \in IOPoints
  /\ keithley' = [keithley EXCEPT !.fault = TRUE]
  /\ Propagate
  /\ UNCHANGED <<self, log, clock, jitter, run, proc, rt, gen, pts, cls>>

RunStdpTest(ReadingsA, ReadingsB) ==
  \/ ResetAndSetup
  \/ SetupWrites
  \/ SetLevelA
  \/ SetLevelB
  \/ Sleep
  \/ QueryA(ReadingsA)
  \/ QueryB(ReadingsB)
  \/ AppendSample
  \/ OutputOff
  \/ RebaseReturn

(***************************************************************************)
(* process_measurement_data                                                *)
(***************************************************************************)
\* exact fractions: a mean current, a delta_g
RECURSIVE Gcd(_, _)
Gcd(a, b) == IF b = 0 THEN a ELSE Gcd(b, a % b)

Rat(n, d) ==
  LET g == Gcd(Abs(n), Abs(d))
      s == IF d < 0 THEN -1 ELSE 1
  IN [num |-> (s * n) \div g, den |-> (s * d) \div g]

RatSub(a, b) == Rat(a.num * b.den - b.num * a.den, a.den * b.den)

RatDiv(a, b) == Rat(a.num * b.den, a.den * b.num)

\* abs(a) < e
RatAbsLess(a, e) == Abs(a.num) < e * a.den

\* np.nan: the one value that is no fraction
NaN == [num |-> 0, den |-> 0]

\* the pre/post column names chosen from self.pre_before_post
ColumnMapping(pre_before_post) ==
  IF pre_before_post
  THEN [preV_col |-> "vA", preI_col |-> "iA", postV_col |-> "vB", postI_col |-> "iB"]
  ELSE [preV_col |-> "vB", preI_col |-> "iB", postV_col |-> "vA", postI_col |-> "iA"]

\* np.isclose(a, b, atol=0.01), with numpy's default rtol=1e-5:
\* |a - b| <= atol + rtol*|b|
IsClose(a, b) == RtolInv * Abs(a - b) <= RtolInv * Atol + Abs(b)

\* df[mask] followed by reset_index: the rows of df, named by their position
\* in the stream, whose column col is close to target, in stream order
Masked(df, col, target) ==
  SelectSeq([k \in 1..Len(df) |-> k], LAMBDA k : IsClose(df[k][col], target))

\* for idx in range(0,len(rows),n): block=rows.iloc[idx:idx+n];
\*     if len(block)==n: keep block
AllChunks(rows, n) ==
  [j \in 1..((Len(rows) + n - 1) \div n) |->
     SubSeq(rows, (j - 1) * n + 1, Min(j * n, Len(rows)))]

BlocksKeepShort(rows, n) == AllChunks(rows, n)

Blocks(rows, n) == SelectSeq(AllChunks(rows, n), LAMBDA b : Len(b) = n)

RECURSIVE SumCol(_, _, _)
SumCol(df, block, col) ==
  IF block = <<>> THEN 0
  ELSE df[Head(block)][col] + SumCol(df, Tail(block), col)

\* block[preI_col].mean()
Mean(df, block, col) == Rat(SumCol(df, block, col), Len(block))

\* block["Time(s)"].iloc[0]
BlockTimes(df, groups) == [j \in DOMAIN groups |-> df[groups[j][1]].Time]

\* delta_g from consecutive read groups
DeltaGNoGuard(read_currents) ==
  [i \in 1..Max(Len(read_currents) - 1, 0) |->
     IF read_currents[i].num = 0 THEN NaN
     ELSE RatDiv(RatSub(read_currents[i + 1], read_currents[i]), read_currents[i])]

DeltaG(read_currents) ==
  [i \in 1..Max(Len(read_currents) - 1, 0) |->
     IF RatAbsLess(read_currents[i], Eps) THEN NaN
     ELSE RatDiv(RatSub(read_currents[i + 1], read_currents[i]), read_currents[i])]

\* delta_t from spike times
DeltaTNoNegation(pre_times, post_times, pre_before_post) ==
  [i \in 1..Min(Len(pre_times), Len(post_times)) |-> post_times[i] - pre_times[i]]

DeltaT(pre_times, post_times, pre_before_post) ==
  [i \in 1..Min(Len(pre_times), Len(post_times)) |->
     IF pre_before_post THEN post_times[i] - pre_times[i]
                        ELSE -(post_times[i] - pre_times[i])]

\* n_min, and the two returned arrays
PairedMaxLen(delta_t_list, delta_g_list) ==
  LET n == Max(Len(delta_g_list), Len(delta_t_list))
  IN IF n = 0
     THEN [dt |-> <<>>, dg |-> <<>>]
     ELSE [dt |-> SubSeq(delta_t_list, 1, Min(n, Len(delta_t_list))),
           dg |-> SubSeq(delta_g_list, 1, Min(n, Len(delta_g_list)))]

PairedNoTruncation(delta_t_list, delta_g_list) ==
  IF Min(Len(delta_g_list), Len(delta_t_list)) = 0
  THEN [dt |-> <<>>, dg |-> <<>>]
  ELSE [dt |-> delta_t_list, dg |-> delta_g_list]

Paired(delta_t_list, delta_g_list) ==
  LET n_min == Min(Len(delta_g_list), Len(delta_t_list))
  IN IF n_min = 0
     THEN [dt |-> <<>>, dg |-> <<>>]
     ELSE [dt |-> SubSeq(delta_t_list, 1, n_min),
           dg |-> SubSeq(delta_g_list, 1, n_min)]

\* the whole function: its locals at the return, and the returned pair
ProcessMeasurementData(slf, data) ==
  LET col == ColumnMapping(slf.pre_before_post)
      read_groups == Blocks(Masked(data, col.preV_col, slf.V_read), slf.read_num)
      read_currents == [j \in DOMAIN read_groups |->
                          Mean(data, read_groups[j], col.preI_col)]
      spike_pre_groups ==
        Blocks(Masked(data, col.preV_col, slf.V_spike), slf.spike_num)
      spike_post_groups ==
        Blocks(Masked(data, col.postV_col, slf.V_spike), slf.spike_num)
      spike_pre_times == BlockTimes(data, spike_pre_groups)
      spike_post_times == BlockTimes(data, spike_post_groups)
      delta_g_list == DeltaG(read_currents)
      delta_t_list == DeltaT(spike_pre_times, spike_post_times,
                             slf.pre_before_post)
      out == Paired(delta_t_list, delta_g_list)
  IN [ data |-> data, called |-> TRUE,
       read_groups |-> read_groups, read_currents |-> read_currents,
       spike_pre_groups |-> spike_pre_groups,
       spike_post_groups |-> spike_post_groups,
       spike_pre_times |-> spike_pre_times,
       spike_post_times |-> spike_post_times,
       delta_g_list |-> delta_g_list, delta_t_list |-> delta_t_list,
       dt |-> out.dt, dg |-> out.dg ]

EmptyProc ==
  [ data |-> <<>>, called |-> FALSE, read_groups |-> <<>>,
    read_currents |-> <<>>, spike_pre_groups |-> <<>>,
    spike_post_groups |-> <<>>, spike_pre_times |-> <<>>,
    spike_post_times |-> <<>>, delta_g_list |-> <<>>, delta_t_list |-> <<>>,
    dt |-> <<>>, dg |-> <<>> ]

EmptyRt ==
  [ stage |-> 0, ans |-> "", pre_seq |-> <<>>, post_seq |-> <<>>,
    data |-> <<>>, dt |-> <<>>, dg |-> <<>>, post_seq2 |-> <<>>,
    pre_seq2 |-> <<>>, data2 |-> <<>>, dt2 |-> <<>>, dg2 |-> <<>> ]

\* SinTester: the frames of its two pure functions before they are called
EmptyPts ==
  [ amplitude |-> 0, points_per_half |-> 0, cycles |-> 0, called |-> FALSE,
    part1 |-> <<>>, part2 |-> <<>>, result |-> <<>> ]

EmptyCls ==
  [ currents |-> <<>>, called |-> FALSE, half |-> 0, y1 |-> <<>>, y2 |-> <<>>,
    k1 |-> NaN, k2 |-> NaN, result |-> "" ]

\* a call of process_measurement_data on the array in proc.data
ProcessCall ==
  /\ pc = "call_process"
  /\ proc' = ProcessMeasurementData(self, proc.data)
  /\ pc' = "processed"
  /\ UNCHANGED <<self, keithley, log, clock, jitter, run, ret, rt, gen, pts, cls>>

(***************************************************************************)
(* SpecRun: run_stdp_test called with any two step lists.                  *)
(***************************************************************************)
RunVolts == {V_read, V_spike}

RunReadingsA == {1, 12}

RunReadingsB == {6}

InitRun ==
  /\ pc = "call_run"
  /\ \E b \in BOOLEAN : self = [DefaultSelf EXCEPT !.pre_before_post = b]
  /\ keithley = InitKeithley
  /\ log = <<>>
  /\ clock = 0
  /\ jitter = 0
  /\ \E p \in SeqsUpTo(RunVolts, MaxSeqLen), q \in SeqsUpTo(RunVolts, MaxSeqLen) :
       run = [EmptyRun EXCEPT !.pre_sequence = p, !.post_sequence = q]
  /\ ret = NoReturn
  /\ proc = EmptyProc
  /\ rt = EmptyRt
  /\ gen = EmptyGen
  /\ pts = EmptyPts
  /\ cls = EmptyCls

NextRun == RunStdpTest(RunReadingsA, RunReadingsB) \/ InstrumentFailure

SpecRun == InitRun /\ [][NextRun]_vars

(***************************************************************************)
(* Claims about run_stdp_test (SpecRun).                                   *)
(***************************************************************************)
CountCmd(op, ch) == Cardinality({k \in DOMAIN log : log[k].op = op /\ log[k].ch = ch})

Planned == Min(Len(run.pre_sequence), Len(run.post_sequence))

FailedAfterSomeSteps ==
  /\ keithley.fault
  /\ 1 <= Len(run.data)
  /\ Len(run.data) < Planned

C2_MinSteps ==
  /\ CountCmd("levelv", "smua") <= Planned
  /\ CountCmd("levelv", "smub") <= Planned
  /\ CountCmd("levelv", "smua") - CountCmd("levelv", "smub") \in {0, 1}
  /\ pc \in {"loop", "rebase", "returned"} =>
       CountCmd("levelv", "smua") = CountCmd("levelv", "smub")
  /\ pc = "returned" =>
       /\ ret.returned
       /\ Len(ret.value) = Planned
       /\ CountCmd("levelv", "smua") = Planned
       /\ CountCmd("levelv", "smub") = Planned
       /\ CountCmd("measure", "smua") = Planned
       /\ CountCmd("measure", "smub") = Planned
       /\ \A k \in 1..Planned :
            /\ ret.value[k].vA = run.chanA_seq[k]
            /\ ret.value[k].vB = run.chanB_seq[k]

C2_Witness ==
  /\ pc = "returned"
  /\ Len(run.pre_sequence) # Len(run.post_sequence)
  /\ Planned >= 2

(***************************************************************************)
(* SpecExtract: process_measurement_data called on any stream of samples   *)
(* whose two sourced voltages are each a read, a spike or a rest level.    *)
(* The array holds at least one sample (what the DataFrame constructor     *)
(* makes of an empty array is the library's matter) and the block sizes    *)
(* are at least 1 (range() raises on a step of 0).                         *)
(***************************************************************************)
ExtractVolts == {V_read, V_spike, V_rest}

BlockSizes == {1, 2}

ExtractCurrents == {12}

InitExtract ==
  /\ pc = "call_process"
  /\ \E b \in BOOLEAN, r \in BlockSizes, sp \in BlockSizes :
       self = [DefaultSelf EXCEPT !.pre_before_post = b, !.read_num = r,
                                  !.spike_num = sp]
  /\ keithley = InitKeithley
  /\ log = <<>>
  /\ clock = 0
  /\ jitter = 0
  /\ run = EmptyRun
  /\ ret = NoReturn
  /\ \E a \in NonEmptySeqsUpTo(ExtractVolts, MaxStream), c \in ExtractCurrents :
       \E b \in [1..Len(a) -> ExtractVolts] :
         proc = [EmptyProc EXCEPT !.data =
                   [k \in 1..Len(a) |->
                      [Time |-> k - 1, vA |-> a[k], vB |-> b[k],
                       iA |-> c, iB |-> c]]]
  /\ rt = EmptyRt
  /\ gen = EmptyGen
  /\ pts = EmptyPts
  /\ cls = EmptyCls

NextExtract == ProcessCall

SpecExtract == InitExtract /\ [][NextExtract]_vars

(***************************************************************************)
(* Claims about the block extraction (SpecExtract).                        *)
(***************************************************************************)
Consecutive(block) == \A j \in 1..(Len(block) - 1) : block[j + 1] = block[j] + 1

AllGroups == {proc.read_groups, proc.spike_pre_groups, proc.spike_post_groups}

\* C3 as stated: every emitted block (read, pre-spike, post-spike) is made of
\* samples that are consecutive in the stream; a run of matching samples that
\* ends before reaching block_size contributes no sample to any block.
C3_BlocksAreConsecutiveRuns ==
  proc.called =>
    \A groups \in AllGroups : \A j \in DOMAIN groups : Consecutive(groups[j])

\* the samples of the stream that match a pulse class
Matching(col, target) ==
  {k \in DOMAIN proc.data : IsClose(proc.data[k][col], target)}

Consumed(groups) == UNION {Range(groups[j]) : j \in DOMAIN groups}

RightSized(groups, matching, size) ==
  /\ \A j \in DOMAIN groups : Len(groups[j]) = size
  /\ Consumed(groups) \subseteq matching
  /\ Cardinality(Consumed(groups)) = size * Len(groups)
  /\ Cardinality(Consumed(groups)) % size = 0
  /\ Len(groups) = Cardinality(matching) \div size

PreVCol == IF self.pre_before_post THEN "vA" ELSE "vB"

PostVCol == IF self.pre_before_post THEN "vB" ELSE "vA"

\* C4: in each pulse class every emitted block has exactly block_size samples
\* (read_num for read blocks, spike_num for spike blocks), the samples
\* consumed into emitted blocks number a multiple of block_size, and a
\* trailing group of fewer than block_size samples is not emitted.
C4_BlocksHaveBlockSize ==
  proc.called =>
    /\ RightSized(proc.read_groups, Matching(PreVCol, self.V_read), self.read_num)
    /\ RightSized(proc.spike_pre_groups, Matching(PreVCol, self.V_spike),
                  self.spike_num)
    /\ RightSized(proc.spike_post_groups, Matching(PostVCol, self.V_spike),
                  self.spike_num)

C4_Witness ==
  /\ proc.called
  /\ Len(proc.read_groups) >= 1
  /\ Cardinality(Matching(PreVCol, self.V_read)) % self.read_num # 0
  /\ Len(proc.spike_post_groups) >= 1
  /\ Cardinality(Matching(PostVCol, self.V_spike)) % self.spike_num # 0

(***************************************************************************)
(* SpecDelta: process_measurement_data called on streams of read samples   *)
(* (any of three current levels), pre-spike samples, post-spike samples    *)
(* and samples where both channels spike, on either channel layout, with   *)
(* one or two ticks between samples.                                       *)
(***************************************************************************)
DeltaCurrents == {1, 10, 12}

OtherCurrents == {6}

\* a sample in terms of the channel X that carries reads and pre spikes and
\* the channel Y that carries post spikes
DeltaKinds ==
  {[vX |-> V_read, vY |-> V_rest, iX |-> c] : c \in DeltaCurrents}
  \cup {[vX |-> V_spike, vY |-> V_rest, iX |-> 12],
        [vX |-> V_rest, vY |-> V_spike, iX |-> 12],
        [vX |-> V_spike, vY |-> V_spike, iX |-> 12]}

Gaps == {1, 2}

RECURSIVE TimeAt(_, _)
TimeAt(gaps, k) == IF k <= 1 THEN 0 ELSE TimeAt(gaps, k - 1) + gaps[k - 1]

InitDelta ==
  /\ pc = "call_process"
  /\ \E b \in BOOLEAN, r \in BlockSizes :
       self = [DefaultSelf EXCEPT !.pre_before_post = b, !.read_num = r,
                                  !.spike_num = 1]
  /\ keithley = InitKeithley
  /\ log = <<>>
  /\ clock = 0
  /\ jitter = 0
  /\ run = EmptyRun
  /\ ret = NoReturn
  /\ \E kinds \in NonEmptySeqsUpTo(DeltaKinds, MaxStream), xOnA \in BOOLEAN,
        iY \in OtherCurrents :
       \E gaps \in [1..(Len(kinds) - 1) -> Gaps] :
         proc = [EmptyProc EXCEPT !.data =
                   [k \in 1..Len(kinds) |->
                      IF xOnA
                      THEN [Time |-> TimeAt(gaps, k), vA |-> kinds[k].vX,
                            vB |-> kinds[k].vY, iA |-> kinds[k].iX, iB |-> iY]
                      ELSE [Time |-> TimeAt(gaps, k), vA |-> kinds[k].vY,
                            vB |-> kinds[k].vX, iA |-> iY, iB |-> kinds[k].iX]]]
  /\ rt = EmptyRt
  /\ gen = EmptyGen
  /\ pts = EmptyPts
  /\ cls = EmptyCls

NextDelta == ProcessCall

SpecDelta == InitDelta /\ [][NextDelta]_vars

(***************************************************************************)
(* Claims about the delta computation (SpecDelta).                         *)
(***************************************************************************)
\* run_stdp_test puts its pre_sequence on channel A when pre_before_post
\* holds and on channel B otherwise: the voltage column of each role
RoleVCol(role) ==
  IF (role = "pre") = self.pre_before_post THEN "vA" ELSE "vB"

\* times of the spike blocks of a role, and of a physical channel
RoleSpikeTimes(role) ==
  BlockTimes(proc.data,
             Blocks(Masked(proc.data, RoleVCol(role), self.V_spike),
                    self.spike_num))

ChannelSpikeTimes(vcol) ==
  BlockTimes(proc.data,
             Blocks(Masked(proc.data, vcol, self.V_spike), self.spike_num))

\* C5 as stated: for both values of pre_before_post every returned delta_t[i]
\* is the time of the i-th post-role spike block minus the time of the i-th
\* pre-role spike block.
C5_PostMinusPreBothWays ==
  proc.called =>
    \A i \in DOMAIN proc.dt :
      proc.dt[i] = RoleSpikeTimes("post")[i] - RoleSpikeTimes("pre")[i]

\* C5 amended: delta_t[i] is post-role minus pre-role spike-block time when
\* pre_before_post is True, and pre-role minus post-role when it is False; in
\* both cases it is the channel-B block time minus the channel-A block time.
C5_PostMinusPreOnlyForward ==
  proc.called =>
    \A i \in DOMAIN proc.dt :
      /\ self.pre_before_post =>
           proc.dt[i] = RoleSpikeTimes("post")[i] - RoleSpikeTimes("pre")[i]
      /\ ~self.pre_before_post =>
           proc.dt[i] = RoleSpikeTimes("pre")[i] - RoleSpikeTimes("post")[i]
      /\ proc.dt[i] = ChannelSpikeTimes("vB")[i] - ChannelSpikeTimes("vA")[i]

C5_Witness ==
  /\ proc.called
  /\ ~self.pre_before_post
  /\ Len(proc.dt) >= 1
  /\ proc.dt[1] > 0

PreICol == IF self.pre_before_post THEN "iA" ELSE "iB"

\* sum of the currents of the j-th read block, on the pre-role channel
BlockSum(j) == SumCol(proc.data, proc.read_groups[j], PreICol)

IsValid(dg) == dg.den > 0

\* C7: delta_g[i] = (I[i+1]-I[i])/I[i] when |I[i]| >= 1e-20, where I[j] is the
\* mean current of read block j; otherwise the entry is the invalid marker,
\* which differs from every valid value.  Every returned entry is the entry
\* of the same position.
C7_RelativeChangeOrMarker ==
  proc.called =>
    /\ Len(proc.delta_g_list) = Max(Len(proc.read_groups) - 1, 0)
    /\ \A i \in DOMAIN proc.delta_g_list :
         LET dg == proc.delta_g_list[i]
         IN IF Abs(BlockSum(i)) >= Eps * self.read_num
            THEN /\ IsValid(dg)
                 /\ dg # NaN
                 /\ dg.num * BlockSum(i) = (BlockSum(i + 1) - BlockSum(i)) * dg.den
            ELSE /\ dg = NaN
                 /\ ~IsValid(dg)
    /\ \A i \in DOMAIN proc.dg : proc.dg[i] = proc.delta_g_list[i]

C7_Witness ==
  /\ proc.called
  /\ proc.dg = <<NaN>>
  /\ proc.delta_g_list = <<NaN, [num |-> 1, den |-> 5]>>

ReadPairs == Max(Len(proc.read_groups) - 1, 0)

SpikePairs == Min(Len(proc.spike_pre_groups), Len(proc.spike_post_groups))

\* C8: the returned delta_t and delta_g arrays have equal length, that length
\* is min(number of consecutive read-block pairs, min(number of pre-spike
\* blocks, number of post-spike blocks)), and both are prefixes of the full
\* lists (only trailing entries are dropped).
C8_EqualLengthPrefixes ==
  proc.called =>
    /\ Len(proc.dt) = Len(proc.dg)
    /\ Len(proc.dt) = Min(ReadPairs, SpikePairs)
    /\ \A i \in DOMAIN proc.dt : proc.dt[i] = proc.delta_t_list[i]
    /\ \A i \in DOMAIN proc.dg : proc.dg[i] = proc.delta_g_list[i]

C8_Witness ==
  /\ proc.called
  /\ Len(proc.dt) >= 1
  /\ Len(proc.delta_g_list) > Len(proc.dt)
  /\ proc.delta_g_list[1] # proc.delta_g_list[Len(proc.delta_g_list)]

ValidPairs == {i \in 1..Min(ReadPairs, SpikePairs) : IsValid(proc.delta_g_list[i])}

\* C9 as stated: whenever there is no valid (delta_t, delta_g) pair (no
\* complete read-block pair, no complete pre/post spike-block pair, or no
\* pair whose delta_g is valid) two empty sequences are returned.
C9_EmptyWhenNoValidPair ==
  (proc.called /\ ValidPairs = {}) => (proc.dt = <<>> /\ proc.dg = <<>>)

\* C9 amended: two empty sequences are returned, without an error, exactly
\* when there is no complete read-block pair or no complete pre/post
\* spike-block pair; pairs whose delta_g is invalid are returned like the
\* others, so a result whose every delta_g is invalid is not empty.
C9_EmptyIffNoPair ==
  proc.called =>
    /\ (ReadPairs = 0 \/ SpikePairs = 0) => (proc.dt = <<>> /\ proc.dg = <<>>)
    /\ (ReadPairs > 0 /\ SpikePairs > 0) =>
         /\ Len(proc.dt) = Min(ReadPairs, SpikePairs)
         /\ Len(proc.dg) = Min(ReadPairs, SpikePairs)

C9_Witness ==
  /\ proc.called
  /\ ReadPairs >= 1
  /\ SpikePairs = 0
  /\ Len(proc.spike_post_groups) >= 1
  /\ proc.dg = <<>>

(***************************************************************************)
(* SpecGen: generate_voltage_sequences called with any segment counts and  *)
(* any list of timing values (in halves: -1, 0, 0.5, 1.5, 2).  The role    *)
(* voltages are pairwise different so that a step shows its role.          *)
(***************************************************************************)
TimeVals == {-2, 0, 1, 3, 4}

GenSelf == [DefaultSelf EXCEPT !.V_active = 2000, !.V_time = 300, !.V_stop = 400]

InitGen ==
  /\ pc = "call_generate"
  /\ \E r \in 0..MaxNum, sp \in 0..MaxNum, a \in 0..MaxNum, st \in 0..MaxNum,
        tn \in SeqsUpTo(TimeVals, MaxTimes) :
       self = [GenSelf EXCEPT !.read_num = r, !.spike_num = sp,
                              !.active_num = a, !.stop_num = st,
                              !.time_num = tn]
  /\ keithley = InitKeithley
  /\ log = <<>>
  /\ clock = 0
  /\ jitter = 0
  /\ run = EmptyRun
  /\ ret = NoReturn
  /\ proc = EmptyProc
  /\ rt = EmptyRt
  /\ gen = EmptyGen
  /\ pts = EmptyPts
  /\ cls = EmptyCls

NextGen == GenerateCall

SpecGen == InitGen /\ [][NextGen]_vars

(***************************************************************************)
(* Claims about generate_voltage_sequences (SpecGen).                      *)
(***************************************************************************)
Sections == DOMAIN gen.section_start

\* the indices of the steps of section n in pre_seq and post_seq
SectionEnd(n) ==
  IF n = Len(gen.section_start) THEN Len(gen.pre_seq)
  ELSE gen.section_start[n + 1].pre

SectionSteps(n) == (gen.section_start[n].pre + 1)..SectionEnd(n)

SetMax(S) == CHOOSE x \in S : \A y \in S : y <= x

SetMin(S) == CHOOSE x \in S : \A y \in S : x <= y

LastPreSpike(n) == SetMax({k \in SectionSteps(n) : gen.pre_seq[k] = self.V_spike})

FirstPostSpike(n) == SetMin({k \in SectionSteps(n) : gen.post_seq[k] = self.V_spike})

\* the number of steps strictly between the two spike segments of section n
SpikeGap(n) == FirstPostSpike(n) - LastPreSpike(n) - 1

\* int(t) computed from its definition, for a timing value h/2 >= 0
Truncated(h) == CHOOSE t \in 0..h : 2 * t <= h /\ h < 2 * t + 2

HoldSteps(h) == IF h < 0 THEN 0 ELSE Truncated(h)

\* C10 as stated: in the section of every timing value t the number of steps
\* between the last pre-channel spike step and the first post-channel spike
\* step is int(t) (read here for the timing values t >= 0 only).
C10_GapIsT ==
  (gen.called /\ self.spike_num >= 1) =>
    \A n \in Sections :
      self.time_num[n] >= 0 => SpikeGap(n) = Truncated(self.time_num[n])

\* C10 amended: that number of steps is active_num + max(int(t), 0); on the
\* post channel they are active_num active steps followed by int(t) hold
\* steps (none when int(t) <= 0).
C10_GapIsActivePlusT ==
  (gen.called /\ self.spike_num >= 1) =>
    \A n \in Sections :
      LET t == HoldSteps(self.time_num[n])
          from == LastPreSpike(n)
      IN /\ SpikeGap(n) = self.active_num + t
         /\ \A k \in 1..self.active_num :
              gen.post_seq[from + k] = self.V_active
         /\ \A k \in 1..t :
              gen.post_seq[from + self.active_num + k] = self.V_time

C10_Witness ==
  /\ gen.called
  /\ self.spike_num >= 1
  /\ self.active_num >= 1
  /\ Len(self.time_num) >= 2
  /\ self.time_num[1] = 3
  /\ self.time_num[2] = -2
  /\ SpikeGap(1) = self.active_num + 1
  /\ SpikeGap(2) = self.active_num

\* the number of steps of section n in post_seq
PostSectionEnd(n) ==
  IF n = Len(gen.section_start) THEN Len(gen.post_seq)
  ELSE gen.section_start[n + 1].post

\* C11: pre_seq and post_seq have the same total length, and the section of
\* every timing value starts and ends at the same index in both lists, so the
\* steps at one index of the two lists belong to the same timing value.
C11_SectionsInLockStep ==
  gen.called =>
    /\ Len(gen.pre_seq) = Len(gen.post_seq)
    /\ Len(gen.section_start) = Len(self.time_num)
    /\ \A n \in Sections :
         /\ gen.section_start[n].pre = gen.section_start[n].post
         /\ SectionEnd(n) = PostSectionEnd(n)
         /\ SectionEnd(n) - gen.section_start[n].pre =
              2 * self.read_num + 2 * self.spike_num + 2 * self.active_num
              + HoldSteps(self.time_num[n]) + self.stop_num

C11_Witness ==
  /\ gen.called
  /\ Len(self.time_num) = 2
  /\ self.time_num[1] = 4
  /\ self.time_num[2] = 1
  /\ self.active_num = 1
  /\ self.read_num = 2
  /\ gen.section_start[2].post = 2 * self.spike_num + self.stop_num + 8
  /\ Len(gen.post_seq) = 2 * gen.section_start[2].post - 2

(***************************************************************************)
(* run_test: generate, run pre->post, process, and on request run and      *)
(* process post->pre with the regenerated sequences passed swapped.        *)
(***************************************************************************)
\* pre_seq, post_seq = generate...(); pre_before_post=True;
\* data=self.run_stdp_test(pre_seq, post_seq)
RunTestStart ==
  /\ pc = "run_test"
  /\ LET g == GenerateVoltageSequences(self)
     IN /\ gen' = g
        /\ rt' = [rt EXCEPT !.stage = 1, !.pre_seq = g.pre_seq,
                            !.post_seq = g.post_seq]
        /\ run' = [EmptyRun EXCEPT !.pre_sequence = g.pre_seq,
                                   !.post_sequence = g.post_seq]
  /\ self' = [self EXCEPT !.pre_before_post = TRUE]
  /\ ret' = NoReturn
  /\ pc' = "call_run"
  /\ UNCHANGED <<keithley, log, clock, jitter, proc, pts, cls>>

\* dt,dg=self.process_measurement_data(data)
RunTestProcessPre ==
  /\ pc = "returned"
  /\ rt.stage = 1
  /\ LET p == ProcessMeasurementData(self, ret.value)
     IN /\ proc' = p
        /\ rt' = [rt EXCEPT !.data = ret.value, !.dt = p.dt, !.dg = p.dg]
  /\ pc' = "ask"
  /\ UNCHANGED <<self, keithley, log, clock, jitter, run, ret, gen, pts, cls>>

\* data2=self.run_stdp_test(post_seq2, pre_seq2): the positional arguments
SecondRunArgsByName(post_seq2, pre_seq2) ==
  [pre_sequence |-> pre_seq2, post_sequence |-> post_seq2]

SecondRunArgs(post_seq2, pre_seq2) ==
  [pre_sequence |-> post_seq2, post_sequence |-> pre_seq2]

\* ans=input("Run post->pre test as well? (y/n)"); on 'y':
\* pre_before_post=False; post_seq2, pre_seq2 = generate...(); the second run
RunTestAsk ==
  /\ pc = "ask"
  /\ \/ /\ rt' = [rt EXCEPT !.ans = "n"]
        /\ pc' = "finished"
        /\ UNCHANGED <<self, run, ret, gen, pts, cls>>
     \/ /\ self' = [self EXCEPT !.pre_before_post = FALSE]
        /\ LET g == GenerateVoltageSequences(self')
               args == SecondRunArgs(g.pre_seq, g.post_seq)
           IN /\ gen' = g
              /\ rt' = [rt EXCEPT !.ans = "y", !.stage = 2,
                                  !.post_seq2 = g.pre_seq,
                                  !.pre_seq2 = g.post_seq]
              /\ run' = [EmptyRun EXCEPT
                           !.pre_sequence = args.pre_sequence,
                           !.post_sequence = args.post_sequence]
        /\ ret' = NoReturn
        /\ pc' = "call_run"
  /\ UNCHANGED <<keithley, log, clock, jitter, proc, pts, cls>>

\* dt2,dg2=self.process_measurement_data(data2)
RunTestProcessPost ==
  /\ pc = "returned"
  /\ rt.stage = 2
  /\ LET p == ProcessMeasurementData(self, ret.value)
     IN /\ proc' = p
        /\ rt' = [rt EXCEPT !.data2 = ret.value, !.dt2 = p.dt, !.dg2 = p.dg]
  /\ pc' = "finished"
  /\ UNCHANGED <<self, keithley, log, clock, jitter, run, ret, gen, pts, cls>>

RunTest == RunTestStart \/ RunTestProcessPre \/ RunTestAsk \/ RunTestProcessPost

(***************************************************************************)
(* SpecTest: run_test on small configurations (timing values in halves:    *)
(* 0, 1.5 and 2) with one reading level per channel.                       *)
(***************************************************************************)
TestConfigs ==
  { [spike_num |-> 1, active_num |-> 0, time_num |-> <<0>>],
    [spike_num |-> 1, active_num |-> 1, time_num |-> <<3>>],
    [spike_num |-> 2, active_num |-> 1, time_num |-> <<3>>],
    [spike_num |-> 2, active_num |-> 0, time_num |-> <<4>>],
    [spike_num |-> 1, active_num |-> 0, time_num |-> <<3, 0>>],
    [spike_num |-> 1, active_num |-> 1, time_num |-> <<0, 4>>] }

TestReadingsA == {12}

TestReadingsB == {6}

InitTest ==
  /\ pc = "run_test"
  /\ \E c \in TestConfigs :
       self = [DefaultSelf EXCEPT !.read_num = 1, !.spike_num = c.spike_num,
                                  !.active_num = c.active_num, !.stop_num = 0,
                                  !.time_num = c.time_num]
  /\ keithley = InitKeithley
  /\ log = <<>>
  /\ clock = 0
  /\ jitter = 0
  /\ run = EmptyRun
  /\ ret = NoReturn
  /\ proc = EmptyProc
  /\ rt = EmptyRt
  /\ gen = EmptyGen
  /\ pts = EmptyPts
  /\ cls = EmptyCls

NextTest ==
  \/ RunTest
  \/ RunStdpTest(TestReadingsA, TestReadingsB)
  \/ InstrumentFailure

SpecTest == InitTest /\ [][NextTest]_vars

(***************************************************************************)
(* Claims about run_test (SpecTest).                                       *)
(***************************************************************************)
TimeColumn(data) == [k \in DOMAIN data |-> data[k].Time]

BothRunsDone == pc = "finished" /\ rt.stage = 2

\* C6: when the swapped run of run_test saw the same per-step sample times as
\* the pre->post run, its delta_t series, negated, is the delta_t series of
\* the pre->post run: same length, equal element by element.
C6_SignSymmetry ==
  (BothRunsDone /\ TimeColumn(rt.data2) = TimeColumn(rt.data)) =>
    /\ Len(rt.dt2) = Len(rt.dt)
    /\ Len(rt.dt) = Len(self.time_num)
    /\ \A i \in DOMAIN rt.dt : -rt.dt2[i] = rt.dt[i]

C6_Witness ==
  /\ BothRunsDone
  /\ TimeColumn(rt.data2) = TimeColumn(rt.data)
  /\ \E k \in 1..(Len(rt.data) - 1) : rt.data[k + 1].Time - rt.data[k].Time = 2
  /\ Len(rt.dt) = 2
  /\ rt.dt[1] = 3
  /\ rt.dt[2] = 1
  /\ rt.dt2 = <<-3, -1>>
  /\ self.spike_num = 1

(***************************************************************************)
(* The single-channel runs: SinTester.run_sine_test (src/sin_tester.py),   *)
(* SrdpTester.run_srdp_test and run_ltm_test (src/srdp_tester.py).  They   *)
(* drive the instrument through the attributes of self.keithley: output    *)
(* is the field outA of the instrument record, a level is a "levelv"       *)
(* command, measure_iv() a "measure" command that hands back a current and *)
(* a measured voltage.  Every time.sleep is logged with its duration in    *)
(* ticks; it takes that long, or one tick longer when slow.                *)
(***************************************************************************)
V_write == 10000

\* measure_iv(): the current read, and the measured voltage as an offset
\* from the level being sourced
SineReadings == {[i |-> 12, dv |-> 0], [i |-> 6, dv |-> 1]}

SrdpReadings == {[i |-> 12, dv |-> 1]}

\* SrdpTester.__init__ (times in ticks of 0.1 s)
DefaultSrdp ==
  [ off_time |-> 0, nplc |-> 1, pulse_width |-> 2, pulse_num |-> 10,
    V_read |-> V_read, V_write |-> V_write,
    space_arrays |-> << <<200, 20, 2, 20>>, <<200, 50, 2, 50>>,
                        <<200, 10, 2, 10>>, <<200, 20, 1, 20>> >>,
    current_space_array_index |-> 0, ltm_pulse_count |-> 50,
    time_values |-> <<>>, voltage_values |-> <<>>, current_values |-> <<>>,
    conductance_values |-> <<>> ]

\* SinTester.__init__
DefaultSin ==
  [ off_time_list |-> <<0, 2>>, pulse_width_list |-> <<1>>,
    points_per_half_list |-> <<6>>, nplc |-> 1 ]

EmptySine ==
  [ voltage_points |-> <<>>, pw |-> 0, off_time |-> 0, k |-> 0, v |-> 0,
    i |-> 0, v_meas |-> 0, data |-> <<>> ]

EmptySrdp ==
  [ space_array |-> <<>>, idx |-> 0, p_idx |-> 0, i |-> 0, v |-> 0,
    start_time |-> 0, data |-> <<>> ]

EmptyLtm ==
  [ space_values |-> <<>>, idx |-> 0, p_idx |-> 0, i |-> 0, v |-> 0,
    start_time |-> 0, data |-> <<>> ]

Label(kind, idx, p_idx) == [kind |-> kind, idx |-> idx + 1, p_idx |-> p_idx + 1]

\* time.sleep(d) on the wall clock
Elapse(d) ==
  \/ /\ clock' = clock + d
     /\ UNCHANGED jitter
  \/ /\ jitter < MaxJitter
     /\ clock' = clock + d + 1
     /\ jitter' = jitter + 1

(***************************************************************************)
(* run_sine_test(voltage_points, pw, off_time)                             *)
(***************************************************************************)
\* reset_device() ... output = True, the two smu.write calls, data=[]
SineSetup ==
  /\ pc = "call_sine"
  /\ keithley' = [keithley EXCEPT !.outA = TRUE]
  /\ log' = log \o <<Cmd("reset", "smua", 0), Cmd("setup", "smua", 0),
                     Cmd("output", "smua", 1), Cmd("range", "smua", 0)>>
  /\ run' = [run EXCEPT !.data = <<>>, !.k = 0]
  /\ jitter' = 0
  /\ pc' = "sine_loop"
  /\ UNCHANGED <<self, clock, ret, proc, rt, gen, pts, cls>>

\* for v in voltage_points: self.keithley.level_v=v
SineSetLevel ==
  /\ pc = "sine_loop"
  /\ run.k < Len(run.voltage_points)
  /\ run' = [run EXCEPT !.v = run.voltage_points[run.k + 1]]
  /\ log' = Append(log, Cmd("levelv", "smua", run.voltage_points[run.k + 1]))
  /\ pc' = "sine_dwell"
  /\ UNCHANGED <<self, keithley, clock, jitter, ret, proc, rt, gen, pts, cls>>

\* time.sleep(pw)
SineDwell ==
  /\ pc = "sine_dwell"
  /\ Elapse(run.pw)
  /\ log' = Append(log, Cmd("sleep", "pw", run.pw))
  /\ pc' = "sine_measure"
  /\ UNCHANGED <<self, keithley, run, ret, proc, rt, gen, pts, cls>>

\* i, v_meas = self.keithley.measure_iv()
SineMeasure(Readings) ==
  /\ pc = "sine_measure"
  /\ \E r \in Readings : run' = [run EXCEPT !.i = r.i, !.v_meas = run.v + r.dv]
  /\ log' = Append(log, Cmd("measure", "smua", 0))
  /\ pc' = "sine_append"
  /\ UNCHANGED <<self, keithley, clock, jitter, ret, proc, rt, gen, pts, cls>>

\* t_now = time.time(); data.append([t_now, v_meas, i])
SineAppend ==
  /\ pc = "sine_append"
  /\ run' = [run EXCEPT
               !.data = Append(@, [Time |-> clock, Voltage |-> run.v_meas,
                                   Current |-> run.i])]
  /\ log' = Append(log, Cmd("append", "data", run.k))
  /\ pc' = "sine_off_time"
  /\ UNCHANGED <<self, keithley, clock, jitter, ret, proc, rt, gen, pts, cls>>

\* time.sleep(off_time), the last statement of the loop body
SineOffTime ==
  /\ pc = "sine_off_time"
  /\ Elapse(run.off_time)
  /\ log' = Append(log, Cmd("sleep", "off", run.off_time))
  /\ run' = [run EXCEPT !.k = @ + 1]
  /\ pc' = "sine_loop"
  /\ UNCHANGED <<self, keithley, ret, proc, rt, gen, pts, cls>>

\* a run that returns with the output still enabled
SineOutputOffSkipped ==
  /\ pc = "sine_loop"
  /\ run.k >= Len(run.voltage_points)
  /\ pc' = "sine_rebase"
  /\ UNCHANGED <<self, keithley, log, clock, jitter, run, ret, proc, rt, gen,
                 pts, cls>>

\* self.keithley.output=False
SineOutputOff ==
  /\ pc = "sine_loop"
  /\ run.k >= Len(run.voltage_points)
  /\ keithley' = [keithley EXCEPT !.outA = FALSE]
  /\ log' = Append(log, Cmd("output", "smua", 0))
  /\ pc' = "sine_rebase"
  /\ UNCHANGED <<self, clock, jitter, run, ret, proc, rt, gen, pts, cls>>

\* the time re-base and return np.array(data)
SineRebaseReturn ==
  /\ pc = "sine_rebase"
  /\ run' = [run EXCEPT !.data = Rebase(@)]
  /\ ret' = Returned(Rebase(run.data))
  /\ pc' = "returned"
  /\ UNCHANGED <<self, keithley, log, clock, jitter, proc, rt, gen, pts, cls>>

RunSineTest(Readings) ==
  \/ SineSetup
  \/ SineSetLevel
  \/ SineDwell
  \/ SineMeasure(Readings)
  \/ SineAppend
  \/ SineOffTime
  \/ SineOutputOff
  \/ SineRebaseReturn

(***************************************************************************)
(* run_srdp_test(space_array)                                              *)
(***************************************************************************)
\* _reset_and_setup_keithley(); data=[]; start_time=time.time()
SrdpSetup ==
  /\ pc = "call_srdp"
  /\ keithley' = [keithley EXCEPT !.outA = TRUE]
  /\ log' = log \o <<Cmd("reset", "smua", 0), Cmd("setup", "smua", 0),
                     Cmd("output", "smua", 1)>>
  /\ run' = [run EXCEPT !.data = <<>>, !.start_time = clock, !.idx = 0,
                        !.p_idx = 0]
  /\ jitter' = 0
  /\ pc' = "srdp_outer"
  /\ UNCHANGED <<self, clock, ret, proc, rt, gen, pts, cls>>

\* for idx,space_val in enumerate(space_array): the next space value
SrdpEnterSpace ==
  /\ pc = "srdp_outer"
  /\ run.idx < Len(run.space_array)
  /\ run' = [run EXCEPT !.p_idx = 0]
  /\ pc' = "srdp_inner"
  /\ UNCHANGED <<self, keithley, log, clock, jitter, ret, proc, rt, gen, pts, cls>>

\* for p_idx in range(self.pulse_num): exhausted
SrdpLeaveSpace ==
  /\ pc = "srdp_inner"
  /\ run.p_idx >= self.pulse_num
  /\ run' = [run EXCEPT !.idx = @ + 1]
  /\ pc' = "srdp_outer"
  /\ UNCHANGED <<self, keithley, log, clock, jitter, ret, proc, rt, gen, pts, cls>>

\* self.keithley.level_v=self.V_read
SrdpReadLevel ==
  /\ pc = "srdp_inner"
  /\ run.p_idx < self.pulse_num
  /\ run' = [run EXCEPT !.v = self.V_read]
  /\ log' = Append(log, Cmd("levelv", "smua", self.V_read))
  /\ pc' = "srdp_read_dwell"
  /\ UNCHANGED <<self, keithley, clock, jitter, ret, proc, rt, gen, pts, cls>>

\* time.sleep(self.pulse_width)
SrdpReadDwell ==
  /\ pc = "srdp_read_dwell"
  /\ Elapse(self.pulse_width)
  /\ log' = Append(log, Cmd("sleep", "pw", self.pulse_width))
  /\ pc' = "srdp_read_measure"
  /\ UNCHANGED <<self, keithley, run, ret, proc, rt, gen, pts, cls>>

\* i_read,v_read=self.keithley.measure_iv()
SrdpReadMeasure ==
  /\ pc = "srdp_read_measure"
  /\ \E r \in SrdpReadings : run' = [run EXCEPT !.i = r.i, !.v = self.V_read + r.dv]
  /\ log' = Append(log, Cmd("measure", "smua", 0))
  /\ pc' = "srdp_read_append"
  /\ UNCHANGED <<self, keithley, clock, jitter, ret, proc, rt, gen, pts, cls>>

\* t_read=time.time()-start_time; data.append([t_read,v_read,i_read,label])
SrdpReadAppend ==
  /\ pc = "srdp_read_append"
  /\ run' = [run EXCEPT
               !.data = Append(@, [Time |-> clock - run.start_time,
                                   Voltage |-> run.v, Current |-> run.i,
                                   Label |-> Label("read", run.idx, run.p_idx)])]
  /\ log' = Append(log, Cmd("append", "read", run.idx))
  /\ pc' = "srdp_settle_off"
  /\ UNCHANGED <<self, keithley, clock, jitter, ret, proc, rt, gen, pts, cls>>

\* self.keithley.output=False
SrdpSettleOff ==
  /\ pc = "srdp_settle_off"
  /\ keithley' = [keithley EXCEPT !.outA = FALSE]
  /\ log' = Append(log, Cmd("output", "smua", 0))
  /\ pc' = "srdp_settle_wait"
  /\ UNCHANGED <<self, clock, jitter, run, ret, proc, rt, gen, pts, cls>>

\* time.sleep(self.off_time)
SrdpSettleWait ==
  /\ pc = "srdp_settle_wait"
  /\ Elapse(self.off_time)
  /\ log' = Append(log, Cmd("sleep", "off", self.off_time))
  /\ pc' = "srdp_settle_on"
  /\ UNCHANGED <<self, keithley, run, ret, proc, rt, gen, pts, cls>>

\* a settle that leaves the output disabled
SrdpSettleOnSkipped ==
  /\ pc = "srdp_settle_on"
  /\ pc' = "srdp_write"
  /\ UNCHANGED <<self, keithley, log, clock, jitter, run, ret, proc, rt, gen,
                 pts, cls>>

\* self.keithley.output=True
SrdpSettleOn ==
  /\ pc = "srdp_settle_on"
  /\ keithley' = [keithley EXCEPT !.outA = TRUE]
  /\ log' = Append(log, Cmd("output", "smua", 1))
  /\ pc' = "srdp_write"
  /\ UNCHANGED <<self, clock, jitter, run, ret, proc, rt, gen, pts, cls>>

\* self.keithley.level_v=self.V_write
SrdpWriteLevel ==
  /\ pc = "srdp_write"
  /\ run' = [run EXCEPT !.v = self.V_write]
  /\ log' = Append(log, Cmd("levelv", "smua", self.V_write))
  /\ pc' = "srdp_write_dwell"
  /\ UNCHANGED <<self, keithley, clock, jitter, ret, proc, rt, gen, pts, cls>>

\* time.sleep(self.pulse_width)
SrdpWriteDwell ==
  /\ pc = "srdp_write_dwell"
  /\ Elapse(self.pulse_width)
  /\ log' = Append(log, Cmd("sleep", "pw", self.pulse_width))
  /\ pc' = "srdp_write_measure"
  /\ UNCHANGED <<self, keithley, run, ret, proc, rt, gen, pts, cls>>

\* i_write,v_write=self.keithley.measure_iv()
SrdpWriteMeasure ==
  /\ pc = "srdp_write_measure"
  /\ \E r \in SrdpReadings : run' = [run EXCEPT !.i = r.i, !.v = self.V_write + r.dv]
  /\ log' = Append(log, Cmd("measure", "smua", 0))
  /\ pc' = "srdp_write_append"
  /\ UNCHANGED <<self, keithley, clock, jitter, ret, proc, rt, gen, pts, cls>>

\* t_write=time.time()-start_time; data.append([t_write,v_write,i_write,label])
SrdpWriteAppend ==
  /\ pc = "srdp_write_append"
  /\ run' = [run EXCEPT
               !.data = Append(@, [Time |-> clock - run.start_time,
                                   Voltage |-> run.v, Current |-> run.i,
                                   Label |-> Label("write", run.idx, run.p_idx)])]
  /\ log' = Append(log, Cmd("append", "write", run.idx))
  /\ pc' = "srdp_gap"
  /\ UNCHANGED <<self, keithley, clock, jitter, ret, proc, rt, gen, pts, cls>>

\* if p_idx<self.pulse_num-1: the guard of the gap
SrdpHasGapAlways == TRUE

SrdpHasGap == run.p_idx < self.pulse_num - 1

\* the guard fails: on to the next repetition
SrdpNoGap ==
  /\ pc = "srdp_gap"
  /\ ~SrdpHasGap
  /\ run' = [run EXCEPT !.p_idx = @ + 1]
  /\ pc' = "srdp_inner"
  /\ UNCHANGED <<self, keithley, log, clock, jitter, ret, proc, rt, gen, pts, cls>>

\* self.keithley.output=False
SrdpGapOff ==
  /\ pc = "srdp_gap"
  /\ SrdpHasGap
  /\ keithley' = [keithley EXCEPT !.outA = FALSE]
  /\ log' = Append(log, Cmd("output", "smua", 0))
  /\ pc' = "srdp_gap_wait"
  /\ UNCHANGED <<self, clock, jitter, run, ret, proc, rt, gen, pts, cls>>

\* time.sleep(self.off_time)
SrdpGapWait ==
  /\ pc = "srdp_gap_wait"
  /\ Elapse(self.off_time)
  /\ log' = Append(log, Cmd("sleep", "off", self.off_time))
  /\ pc' = "srdp_gap_on"
  /\ UNCHANGED <<self, keithley, run, ret, proc, rt, gen, pts, cls>>

\* self.keithley.output=True
SrdpGapOn ==
  /\ pc = "srdp_gap_on"
  /\ keithley' = [keithley EXCEPT !.outA = TRUE]
  /\ log' = Append(log, Cmd("output", "smua", 1))
  /\ pc' = "srdp_space_wait"
  /\ UNCHANGED <<self, clock, jitter, run, ret, proc, rt, gen, pts, cls>>

\* time.sleep(space_val), the last statement of the loop body
SrdpSpaceWait ==
  /\ pc = "srdp_space_wait"
  /\ Elapse(run.space_array[run.idx + 1])
  /\ log' = Append(log, Cmd("sleep", "space", run.space_array[run.idx + 1]))
  /\ run' = [run EXCEPT !.p_idx = @ + 1]
  /\ pc' = "srdp_inner"
  /\ UNCHANGED <<self, keithley, ret, proc, rt, gen, pts, cls>>

\* self.keithley.output=False after the loops
SrdpOutputOff ==
  /\ pc = "srdp_outer"
  /\ run.idx >= Len(run.space_array)
  /\ keithley' = [keithley EXCEPT !.outA = FALSE]
  /\ log' = Append(log, Cmd("output", "smua", 0))
  /\ pc' = "srdp_rebase"
  /\ UNCHANGED <<self, clock, jitter, run, ret, proc, rt, gen, pts, cls>>

\* the time re-base and return np.array(data,dtype=object)
SrdpRebaseReturn ==
  /\ pc = "srdp_rebase"
  /\ run' = [run EXCEPT !.data = Rebase(@)]
  /\ ret' = Returned(Rebase(run.data))
  /\ pc' = "returned"
  /\ UNCHANGED <<self, keithley, log, clock, jitter, proc, rt, gen, pts, cls>>

RunSrdpTest ==
  \/ SrdpSetup
  \/ SrdpEnterSpace
  \/ SrdpLeaveSpace
  \/ SrdpReadLevel
  \/ SrdpReadDwell
  \/ SrdpReadMeasure
  \/ SrdpReadAppend
  \/ SrdpSettleOff
  \/ SrdpSettleWait
  \/ SrdpSettleOn
  \/ SrdpWriteLevel
  \/ SrdpWriteDwell
  \/ SrdpWriteMeasure
  \/ SrdpWriteAppend
  \/ SrdpNoGap
  \/ SrdpGapOff
  \/ SrdpGapWait
  \/ SrdpGapOn
  \/ SrdpSpaceWait
  \/ SrdpOutputOff
  \/ SrdpRebaseReturn

(***************************************************************************)
(* run_ltm_test(space_values)                                              *)
(***************************************************************************)
\* _reset_and_setup_keithley(); data=[]; start_time=time.time()
LtmSetup ==
  /\ pc = "call_ltm"
  /\ keithley' = [keithley EXCEPT !.outA = TRUE]
  /\ log' = log \o <<Cmd("reset", "smua", 0), Cmd("setup", "smua", 0),
                     Cmd("output", "smua", 1)>>
  /\ run' = [run EXCEPT !.data = <<>>, !.start_time = clock, !.idx = 0,
                        !.p_idx = 0]
  /\ jitter' = 0
  /\ pc' = "ltm_outer"
  /\ UNCHANGED <<self, clock, ret, proc, rt, gen, pts, cls>>

\* for idx,space_val in enumerate(space_values): the next space value
LtmEnterSpace ==
  /\ pc = "ltm_outer"
  /\ run.idx < Len(run.space_values)
  /\ run' = [run EXCEPT !.p_idx = 0]
  /\ pc' = "ltm_inner"
  /\ UNCHANGED <<self, keithley, log, clock, jitter, ret, proc, rt, gen, pts, cls>>

\* for p_idx in range(self.ltm_pulse_count): exhausted
LtmLeaveSpace ==
  /\ pc = "ltm_inner"
  /\ run.p_idx >= self.ltm_pulse_count
  /\ run' = [run EXCEPT !.idx = @ + 1]
  /\ pc' = "ltm_outer"
  /\ UNCHANGED <<self, keithley, log, clock, jitter, ret, proc, rt, gen, pts, cls>>

\* self.keithley.level_v=self.V_write
LtmWriteLevel ==
  /\ pc = "ltm_inner"
  /\ run.p_idx < self.ltm_pulse_count
  /\ run' = [run EXCEPT !.v = self.V_write]
  /\ log' = Append(log, Cmd("levelv", "smua", self.V_write))
  /\ pc' = "ltm_dwell"
  /\ UNCHANGED <<self, keithley, clock, jitter, ret, proc, rt, gen, pts, cls>>

\* time.sleep(self.pulse_width)
LtmDwell ==
  /\ pc = "ltm_dwell"
  /\ Elapse(self.pulse_width)
  /\ log' = Append(log, Cmd("sleep", "pw", self.pulse_width))
  /\ pc' = "ltm_measure"
  /\ UNCHANGED <<self, keithley, run, ret, proc, rt, gen, pts, cls>>

\* i_write,v_write=self.keithley.measure_iv()
LtmMeasure ==
  /\ pc = "ltm_measure"
  /\ \E r \in SrdpReadings : run' = [run EXCEPT !.i = r.i, !.v = self.V_write + r.dv]
  /\ log' = Append(log, Cmd("measure", "smua", 0))
  /\ pc' = "ltm_append"
  /\ UNCHANGED <<self, keithley, clock, jitter, ret, proc, rt, gen, pts, cls>>

\* t_now=time.time()-start_time; data.append([t_now,v_write,i_write,label])
LtmAppend ==
  /\ pc = "ltm_append"
  /\ run' = [run EXCEPT
               !.data = Append(@, [Time |-> clock - run.start_time,
                                   Voltage |-> run.v, Current |-> run.i,
                                   Label |-> Label("ltm_write", run.idx, run.p_idx)])]
  /\ log' = Append(log, Cmd("append", "ltm_write", run.idx))
  /\ pc' = "ltm_settle_off"
  /\ UNCHANGED <<self, keithley, clock, jitter, ret, proc, rt, gen, pts, cls>>

\* self.keithley.output=False
LtmSettleOff ==
  /\ pc = "ltm_settle_off"
  /\ keithley' = [keithley EXCEPT !.outA = FALSE]
  /\ log' = Append(log, Cmd("output", "smua", 0))
  /\ pc' = "ltm_settle_wait"
  /\ UNCHANGED <<self, clock, jitter, run, ret, proc, rt, gen, pts, cls>>

\* time.sleep(self.off_time)
LtmSettleWait ==
  /\ pc = "ltm_settle_wait"
  /\ Elapse(self.off_time)
  /\ log' = Append(log, Cmd("sleep", "off", self.off_time))
  /\ pc' = "ltm_settle_on"
  /\ UNCHANGED <<self, keithley, run, ret, proc, rt, gen, pts, cls>>

\* self.keithley.output=True
LtmSettleOn ==
  /\ pc = "ltm_settle_on"
  /\ keithley' = [keithley EXCEPT !.outA = TRUE]
  /\ log' = Append(log, Cmd("output", "smua", 1))
  /\ pc' = "ltm_space"
  /\ UNCHANGED <<self, clock, jitter, run, ret, proc, rt, gen, pts, cls>>

\* if p_idx<self.ltm_pulse_count-1: time.sleep(space_val)
LtmSpaceWait ==
  /\ pc = "ltm_space"
  /\ run.p_idx < self.ltm_pulse_count - 1
  /\ Elapse(run.space_values[run.idx + 1])
  /\ log' = Append(log, Cmd("sleep", "space", run.space_values[run.idx + 1]))
  /\ run' = [run EXCEPT !.p_idx = @ + 1]
  /\ pc' = "ltm_inner"
  /\ UNCHANGED <<self, keithley, ret, proc, rt, gen, pts, cls>>

\* the guard fails: on to the next repetition
LtmNoSpace ==
  /\ pc = "ltm_space"
  /\ ~(run.p_idx < self.ltm_pulse_count - 1)
  /\ run' = [run EXCEPT !.p_idx = @ + 1]
  /\ pc' = "ltm_inner"
  /\ UNCHANGED <<self, keithley, log, clock, jitter, ret, proc, rt, gen, pts, cls>>

\* self.keithley.output=False after the loops
LtmOutputOff ==
  /\ pc = "ltm_outer"
  /\ run.idx >= Len(run.space_values)
  /\ keithley' = [keithley EXCEPT !.outA = FALSE]
  /\ log' = Append(log, Cmd("output", "smua", 0))
  /\ pc' = "ltm_rebase"
  /\ UNCHANGED <<self, clock, jitter, run, ret, proc, rt, gen, pts, cls>>

\* the time re-base and return np.array(data,dtype=object)
LtmRebaseReturn ==
  /\ pc = "ltm_rebase"
  /\ run' = [run EXCEPT !.data = Rebase(@)]
  /\ ret' = Returned(Rebase(run.data))
  /\ pc' = "returned"
  /\ UNCHANGED <<self, keithley, log, clock, jitter, proc, rt, gen, pts, cls>>

RunLtmTest ==
  \/ LtmSetup
  \/ LtmEnterSpace
  \/ LtmLeaveSpace
  \/ LtmWriteLevel
  \/ LtmDwell
  \/ LtmMeasure
  \/ LtmAppend
  \/ LtmSettleOff
  \/ LtmSettleWait
  \/ LtmSettleOn
  \/ LtmSpaceWait
  \/ LtmNoSpace
  \/ LtmOutputOff
  \/ LtmRebaseReturn

(***************************************************************************)
(* SpecSingle: one call of run_sine_test, run_srdp_test or run_ltm_test.   *)
(* The sine run gets any list of levels (0, 0.5 V, -0.5 V) with a pulse    *)
(* width of one tick; the SRDP and LTM runs get one of a few space lists   *)
(* and pulse counts.  The off time is zero or one tick.                    *)
(***************************************************************************)
SineLevels == {0, 5000, -5000}

OffTimes == {0, 1}

StartClocks == {0, 3}

SrdpConfigs ==
  { [space_array |-> <<>>, pulse_num |-> 1],
    [space_array |-> <<2>>, pulse_num |-> 0],
    [space_array |-> <<1>>, pulse_num |-> 1],
    [space_array |-> <<2>>, pulse_num |-> 2],
    [space_array |-> <<1, 2>>, pulse_num |-> 1],
    [space_array |-> <<2, 1>>, pulse_num |-> 2],
    [space_array |-> <<1>>, pulse_num |-> 3] }

InitSine ==
  /\ pc = "call_sine"
  /\ self = DefaultSin
  /\ \E vp \in SeqsUpTo(SineLevels, MaxSeqLen), off \in OffTimes :
       run = [EmptySine EXCEPT !.voltage_points = vp, !.pw = 1, !.off_time = off]

InitSrdp ==
  \E c \in SrdpConfigs, off \in OffTimes :
    /\ self = [DefaultSrdp EXCEPT !.off_time = off, !.pulse_width = 1,
                                  !.pulse_num = c.pulse_num,
                                  !.ltm_pulse_count = c.pulse_num]
    /\ \/ /\ pc = "call_srdp"
          /\ run = [EmptySrdp EXCEPT !.space_array = c.space_array]
       \/ /\ pc = "call_ltm"
          /\ run = [EmptyLtm EXCEPT !.space_values = c.space_array]

InitSingle ==
  /\ InitSine \/ InitSrdp
  /\ keithley = InitKeithley
  /\ log = <<>>
  /\ clock \in StartClocks
  /\ jitter = 0
  /\ ret = NoReturn
  /\ proc = EmptyProc
  /\ rt = EmptyRt
  /\ gen = EmptyGen
  /\ pts = EmptyPts
  /\ cls = EmptyCls

NextSingle == RunSineTest(SineReadings) \/ RunSrdpTest \/ RunLtmTest

SpecSingle == InitSingle /\ [][NextSingle]_vars

(***************************************************************************)
(* Claims about the single-channel runs (SpecSingle).                      *)
(***************************************************************************)
\* which function the frame in run belongs to
InSineRun == "voltage_points" \in DOMAIN run

InSrdpRun == "space_array" \in DOMAIN run

InLtmRun == "space_values" \in DOMAIN run

IsCmd(k, op, ch) == log[k].op = op /\ log[k].ch = ch

IsLevel(k) == IsCmd(k, "levelv", "smua")

\* two source steps with no source step between them
ConsecutiveLevels(a, b) ==
  /\ a < b
  /\ IsLevel(a)
  /\ IsLevel(b)
  /\ \A k \in (a + 1)..(b - 1) : ~IsLevel(k)

\* output off, the off-time delay, output on, in this order, between a and b
SettledBetween(a, b) ==
  \E x, y, z \in (a + 1)..(b - 1) :
    /\ x < y
    /\ y < z
    /\ IsCmd(x, "output", "smua") /\ log[x].val = 0
    /\ IsCmd(y, "sleep", "off")
    /\ IsCmd(z, "output", "smua") /\ log[z].val = 1

\* C12 as stated: in the sine run and the SRDP run, between every two
\* consecutive source steps the output is switched off, the off-time delay
\* elapses and the output is switched on again, in this order, before the
\* next level is set.
C12_SettleBetweenSteps ==
  (InSineRun \/ InSrdpRun) =>
    \A a, b \in DOMAIN log : ConsecutiveLevels(a, b) => SettledBetween(a, b)

\* the positions of the log where a sample was appended, and the first such
\* position after k (one past the end of the log when there is none)
Appends == {k \in DOMAIN log : log[k].op = "append"}

NextAppend(k) ==
  IF \E m \in Appends : m > k
  THEN SetMin({m \in Appends : m > k})
  ELSE Len(log) + 1

\* the space delays waited after the sample appended at position k and before
\* the next sample
SpaceWaitsAfter(k) ==
  {m \in (k + 1)..(NextAppend(k) - 1) : IsCmd(m, "sleep", "space")}

\* the n-th sample of the run belongs to repetition p (from 1) of space
\* value j (from 1)
SpaceOf(n) == ((n - 1) \div (2 * self.pulse_num)) + 1

RepetitionOf(n) == (((n - 1) % (2 * self.pulse_num)) \div 2) + 1

SrdpDone == InSrdpRun /\ pc = "returned"

\* C13: a fault-free run_srdp_test on a space list of length L with pulse_num
\* P returns 2*L*P samples that alternate read (level V_read) and write
\* (level V_write), and waits the space delay of the current space value
\* after the write step of every repetition but the last of that space
\* value, and nowhere else: P-1 times per space value.
C13_AlternateAndSpace ==
  SrdpDone =>
    LET L == Len(run.space_array)
        P == self.pulse_num
        levels == SelectSeq(log, LAMBDA c : c.op = "levelv")
        appended == SelectSeq([k \in DOMAIN log |-> k], LAMBDA k : k \in Appends)
    IN /\ Len(ret.value) = 2 * L * P
       /\ Len(levels) = 2 * L * P
       /\ Len(appended) = 2 * L * P
       /\ \A n \in DOMAIN ret.value :
            LET kind == IF n % 2 = 1 THEN "read" ELSE "write"
                level == IF n % 2 = 1 THEN self.V_read ELSE self.V_write
            IN /\ ret.value[n].Label = [kind |-> kind, idx |-> SpaceOf(n),
                                        p_idx |-> RepetitionOf(n)]
               /\ levels[n].val = level
               /\ IsClose(ret.value[n].Voltage, level)
               /\ log[appended[n]].ch = kind
               /\ IF n % 2 = 0 /\ RepetitionOf(n) < P
                  THEN /\ Cardinality(SpaceWaitsAfter(appended[n])) = 1
                       /\ \A m \in SpaceWaitsAfter(appended[n]) :
                            log[m].val = run.space_array[SpaceOf(n)]
                  ELSE SpaceWaitsAfter(appended[n]) = {}
       /\ Cardinality({m \in DOMAIN log : IsCmd(m, "sleep", "space")})
            = L * Max(P - 1, 0)

C13_Witness ==
  /\ SrdpDone
  /\ run.space_array = <<2, 1>>
  /\ self.pulse_num = 2
  /\ Len(ret.value) = 8
  /\ Cardinality({m \in DOMAIN log : IsCmd(m, "sleep", "space")}) = 2

(***************************************************************************)
(* SinTester.generate_custom_sine_points.  A point is kept in symbolic     *)
(* form: [amp, i, n] stands for amp*sin(i*pi/n).  In floating point        *)
(* sin(0.0) is exactly 0.0 and so is any product with 0.0, while           *)
(* sin(i*pi/n) for i > 0 is not (sin(pi) is about 1.2e-16), so the one     *)
(* exact zero is the point with i = 0 or amp = 0.                          *)
(***************************************************************************)
MaxPoints == 3
MaxCycles == 3
MaxCurrents == 4

ZeroPoint == [amp |-> 0, i |-> 0, n |-> 1]

\* np.sin(i*np.pi/points_per_half)
SinPoint(i, n) == IF i = 0 THEN ZeroPoint ELSE [amp |-> 1, i |-> i, n |-> n]

\* amplitude*v
Scale(amplitude, v) ==
  IF amplitude = 0 \/ v = ZeroPoint THEN ZeroPoint
  ELSE [v EXCEPT !.amp = amplitude * @]

\* list*cycles: the empty list when cycles <= 0
RECURSIVE RepeatList(_, _)
RepeatList(list, cycles) ==
  IF cycles <= 0 THEN <<>> ELSE list \o RepeatList(list, cycles - 1)

\* full_seq = seq_pos+seq_neg + [0.0]
FullSeqWholeCycles(part1, part2, cycles) ==
  RepeatList(part1 \o part2, cycles) \o <<ZeroPoint>>

FullSeq(part1, part2, cycles) ==
  RepeatList(part1, cycles) \o RepeatList(part2, cycles) \o <<ZeroPoint>>

GenerateCustomSinePoints(amplitude, points_per_half, cycles) ==
  LET part1 == [k \in 1..points_per_half |-> SinPoint(k - 1, points_per_half)]
      part2 == [k \in 1..points_per_half |->
                  SinPoint(points_per_half + k - 1, points_per_half)]
      full_seq == FullSeq(part1, part2, cycles)
  IN [ amplitude |-> amplitude, points_per_half |-> points_per_half,
       cycles |-> cycles, called |-> TRUE, part1 |-> part1, part2 |-> part2,
       result |-> [k \in DOMAIN full_seq |-> Scale(amplitude, full_seq[k])] ]

\* a call of generate_custom_sine_points
PointsCall ==
  /\ pc = "call_points"
  /\ pts' = GenerateCustomSinePoints(pts.amplitude, pts.points_per_half,
                                     pts.cycles)
  /\ pc' = "points_done"
  /\ UNCHANGED <<self, keithley, log, clock, jitter, run, ret, proc, rt, gen, cls>>

(***************************************************************************)
(* SpecPoints: generate_custom_sine_points called with any amplitude       *)
(* (in units of 0.5), any points_per_half and any cycles, zero included.   *)
(***************************************************************************)
Amplitudes == {-1, 0, 1, 2}

InitPoints ==
  /\ pc = "call_points"
  /\ self = DefaultSin
  /\ keithley = InitKeithley
  /\ log = <<>>
  /\ clock = 0
  /\ jitter = 0
  /\ run = EmptyRun
  /\ ret = NoReturn
  /\ proc = EmptyProc
  /\ rt = EmptyRt
  /\ gen = EmptyGen
  /\ \E a \in Amplitudes, n \in 0..MaxPoints, c \in 0..MaxCycles :
       pts = [EmptyPts EXCEPT !.amplitude = a, !.points_per_half = n,
                              !.cycles = c]
  /\ cls = EmptyCls

NextPoints == PointsCall

SpecPoints == InitPoints /\ [][NextPoints]_vars

\* C16: for n >= 1, c >= 1 and any amplitude the result has 2*n*c + 1
\* elements, its first element is exactly 0, its last element is the appended
\* zero, its first n*c elements are the rising half (amplitude*sin(i*pi/n),
\* i = 0..n-1) repeated c times and the next n*c elements are the falling
\* half (i = n..2n-1) repeated c times.
C16_SinePointsShape ==
  (pts.called /\ pts.points_per_half >= 1 /\ pts.cycles >= 1) =>
    LET n == pts.points_per_half
        c == pts.cycles
        a == pts.amplitude
    IN /\ Len(pts.result) = 2 * n * c + 1
       /\ pts.result[1] = ZeroPoint
       /\ pts.result[2 * n * c + 1] = ZeroPoint
       /\ \A r \in 0..(c - 1), j \in 1..n :
            /\ pts.result[r * n + j] =
                 (IF a = 0 \/ j = 1 THEN ZeroPoint
                  ELSE [amp |-> a, i |-> j - 1, n |-> n])
            /\ pts.result[n * c + r * n + j] =
                 (IF a = 0 THEN ZeroPoint
                  ELSE [amp |-> a, i |-> n + j - 1, n |-> n])

C16_Witness ==
  /\ pts.called
  /\ pts.points_per_half = 2
  /\ pts.cycles = 2
  /\ pts.amplitude = 2
  /\ pts.result[3] = ZeroPoint
  /\ pts.result[4] = [amp |-> 2, i |-> 1, n |-> 2]
  /\ pts.result[5] = [amp |-> 2, i |-> 2, n |-> 2]
  /\ Len(pts.result) = 9

(***************************************************************************)
(* SinTester.fit_linear and determine_m_type.  The least-squares slope of  *)
(* y against x = 1..len(y) is computed as the exact fraction               *)
(* (n*Sxy - Sx*Sy) / (n*Sxx - Sx*Sx).                                      *)
(***************************************************************************)
RECURSIVE SumTo(_, _)
SumTo(f, n) == IF n <= 0 THEN 0 ELSE f[n] + SumTo(f, n - 1)

\* slope of fit_linear(range(1, len(y)+1), y)
FitLinear(y) ==
  LET n == Len(y)
      Sx == SumTo([k \in 1..n |-> k], n)
      Sy == SumTo(y, n)
      Sxy == SumTo([k \in 1..n |-> k * y[k]], n)
      Sxx == SumTo([k \in 1..n |-> k * k], n)
  IN IF n < 2 THEN Rat(0, 1)
     ELSE Rat(n * Sxy - Sx * Sy, n * Sxx - Sx * Sx)

\* the if/elif chain of determine_m_type
ClassifyNonStrict(k1, k2) ==
  IF k1.num <= 0 /\ k2.num >= 0 THEN "M1"
  ELSE IF k1.num <= 0 /\ k2.num <= 0 THEN "M2"
  ELSE IF k1.num >= 0 /\ k2.num <= 0 THEN "M3"
  ELSE IF k1.num >= 0 /\ k2.num >= 0 THEN "M4"
  ELSE "M0"

ClassifySwapped(k1, k2) ==
  IF k1.num < 0 /\ k2.num > 0 THEN "M1"
  ELSE IF k1.num > 0 /\ k2.num < 0 THEN "M2"
  ELSE IF k1.num < 0 /\ k2.num < 0 THEN "M3"
  ELSE IF k1.num > 0 /\ k2.num > 0 THEN "M4"
  ELSE "M0"

Classify(k1, k2) ==
  IF k1.num < 0 /\ k2.num > 0 THEN "M1"
  ELSE IF k1.num < 0 /\ k2.num < 0 THEN "M2"
  ELSE IF k1.num > 0 /\ k2.num < 0 THEN "M3"
  ELSE IF k1.num > 0 /\ k2.num > 0 THEN "M4"
  ELSE "M0"

\* half=len(currents)//2
Half(currents) == Len(currents) \div 2

DetermineMType(currents) ==
  LET half == Half(currents)
      y1 == SubSeq(currents, 1, half)
      y2 == SubSeq(currents, half + 1, Len(currents))
      k1 == FitLinear(y1)
      k2 == FitLinear(y2)
  IN [ currents |-> currents, called |-> TRUE, half |-> half, y1 |-> y1,
       y2 |-> y2, k1 |-> k1, k2 |-> k2, result |-> Classify(k1, k2) ]

\* a call of determine_m_type
ClassifyCall ==
  /\ pc = "call_classify"
  /\ cls' = DetermineMType(cls.currents)
  /\ pc' = "classified"
  /\ UNCHANGED <<self, keithley, log, clock, jitter, run, ret, proc, rt, gen, pts>>

(***************************************************************************)
(* SpecClassify: determine_m_type called on any short list of currents.    *)
(***************************************************************************)
ClassifyCurrents == {0, 1, 3}

InitClassify ==
  /\ pc = "call_classify"
  /\ self = DefaultSin
  /\ keithley = InitKeithley
  /\ log = <<>>
  /\ clock = 0
  /\ jitter = 0
  /\ run = EmptyRun
  /\ ret = NoReturn
  /\ proc = EmptyProc
  /\ rt = EmptyRt
  /\ gen = EmptyGen
  /\ pts = EmptyPts
  /\ \E c \in SeqsUpTo(ClassifyCurrents, MaxCurrents) :
       cls = [EmptyCls EXCEPT !.currents = c]

NextClassify == ClassifyCall

SpecClassify == InitClassify /\ [][NextClassify]_vars

IsNeg(k) == k.num < 0 /\ k.den > 0

IsPos(k) == k.num > 0 /\ k.den > 0

IsZero(k) == k.num = 0 /\ k.den > 0

\* C14: from the two fitted slopes determine_m_type returns one label of
\* M0..M4: M1 iff k1<0 and k2>0, M2 iff k1<0 and k2<0, M3 iff k1>0 and k2<0,
\* M4 iff k1>0 and k2>0, and M0 iff at least one of the slopes is zero.
C14_LabelFromSlopeSigns ==
  cls.called =>
    /\ cls.result \in {"M0", "M1", "M2", "M3", "M4"}
    /\ (cls.result = "M1") <=> (IsNeg(cls.k1) /\ IsPos(cls.k2))
    /\ (cls.result = "M2") <=> (IsNeg(cls.k1) /\ IsNeg(cls.k2))
    /\ (cls.result = "M3") <=> (IsPos(cls.k1) /\ IsNeg(cls.k2))
    /\ (cls.result = "M4") <=> (IsPos(cls.k1) /\ IsPos(cls.k2))
    /\ (cls.result = "M0") <=> (IsZero(cls.k1) \/ IsZero(cls.k2))

C14_Witness ==
  /\ cls.called
  /\ cls.currents = <<0, 3, 1, 0>>
  /\ cls.k1 = [num |-> 3, den |-> 1]
  /\ cls.k2 = [num |-> -1, den |-> 1]
  /\ cls.result = "M3"

\* C19: the list is split at index len//2, a half of fewer than 2 points gets
\* slope 0, and every list of 0, 1, 2 or 3 currents is classified M0.
C19_ShortListsAreM0 ==
  cls.called =>
    /\ cls.half = Len(cls.currents) \div 2
    /\ Len(cls.y1) = cls.half
    /\ cls.y1 \o cls.y2 = cls.currents
    /\ Len(cls.y1) < 2 => cls.k1 = [num |-> 0, den |-> 1]
    /\ Len(cls.y2) < 2 => cls.k2 = [num |-> 0, den |-> 1]
    /\ Len(cls.currents) <= 3 => cls.result = "M0"

C19_Witness ==
  /\ cls.called
  /\ cls.currents = <<3, 1, 0>>
  /\ cls.half = 1
  /\ cls.k1 = [num |-> 0, den |-> 1]
  /\ cls.k2 = [num |-> -1, den |-> 1]
  /\ cls.result = "M0"

(***************************************************************************)
(* SinTester.run_test: for every off time, pulse width and points-per-half *)
(* value, generate the points, run them, extract the peak currents and     *)
(* classify them, then wait.  The folder, file and plot calls, and the r2  *)
(* diagnostics, do not touch the instrument and are left out.              *)
(***************************************************************************)
Cycles == 4

WaitBetween == 50

\* a point as a level in units of 1e-4 V, for points_per_half <= 2, where the
\* sine is 0, 1, 0 (to within 2e-16), -1
ToLevel(point) ==
  IF point.n = 2 /\ point.i % 4 = 1 THEN point.amp * 10000
  ELSE IF point.n = 2 /\ point.i % 4 = 3 THEN -(point.amp * 10000)
  ELSE 0

\* extract_peak_currents(data, v_target, tol=0.05)
ExtractPeakCurrents(data, v_target) ==
  LET rows == SelectSeq(data, LAMBDA row : Abs(row.Voltage - v_target) < 500)
  IN [k \in DOMAIN rows |-> rows[k].Current]

\* the (off_t, pw, pph) of the k-th iteration of the three nested loops
Combo(slf, k) ==
  LET b == Len(slf.pulse_width_list)
      c == Len(slf.points_per_half_list)
  IN [ off_t |-> slf.off_time_list[(k \div (b * c)) + 1],
       pw |-> slf.pulse_width_list[((k \div c) % b) + 1],
       pph |-> slf.points_per_half_list[(k % c) + 1] ]

Combos(slf) ==
  Len(slf.off_time_list) * Len(slf.pulse_width_list)
  * Len(slf.points_per_half_list)

EmptySinTest == [stage |-> 3, n |-> 0, data |-> <<>>, pos |-> <<>>, neg |-> <<>>]

\* voltage_points = generate_custom_sine_points(1.0, pph, cycles=4);
\* data=self.run_sine_test(voltage_points, pw, off_t)
SinTestNext ==
  /\ pc = "sin_run_test"
  /\ rt.n < Combos(self)
  /\ LET cmb == Combo(self, rt.n)
         g == GenerateCustomSinePoints(1, cmb.pph, Cycles)
     IN /\ pts' = g
        /\ run' = [EmptySine EXCEPT
                     !.voltage_points = [k \in DOMAIN g.result |-> ToLevel(g.result[k])],
                     !.pw = cmb.pw, !.off_time = cmb.off_t]
  /\ ret' = NoReturn
  /\ pc' = "call_sine"
  /\ UNCHANGED <<self, keithley, log, clock, jitter, proc, rt, gen, cls>>

\* pos, neg = extract_peak_currents(...); mtype=determine_m_type(pos);
\* time.sleep(5)
SinTestAfterRun ==
  /\ pc = "returned"
  /\ rt.stage = 3
  /\ rt' = [rt EXCEPT !.data = ret.value,
                      !.pos = ExtractPeakCurrents(ret.value, 10000),
                      !.neg = ExtractPeakCurrents(ret.value, -10000),
                      !.n = @ + 1]
  /\ cls' = DetermineMType(ExtractPeakCurrents(ret.value, 10000))
  /\ clock' = clock + WaitBetween
  /\ pc' = "sin_run_test"
  /\ UNCHANGED <<self, keithley, log, jitter, run, ret, proc, gen, pts>>

\* the loops are exhausted: return
SinTestDone ==
  /\ pc = "sin_run_test"
  /\ rt.n >= Combos(self)
  /\ pc' = "finished"
  /\ UNCHANGED <<self, keithley, log, clock, jitter, run, ret, proc, rt, gen, pts, cls>>

SinRunTest == SinTestNext \/ SinTestAfterRun \/ SinTestDone

(***************************************************************************)
(* SrdpTester.process_measurement_data and run_test: one SRDP run per      *)
(* space array, then on request one LTM run on the space values entered.   *)
(***************************************************************************)
\* the read rows of the data, stored in the attributes of self
SrdpProcess(slf, data) ==
  LET read_data == SelectSeq(data, LAMBDA row : IsClose(row.Voltage, slf.V_read))
  IN [slf EXCEPT
        !.time_values = [k \in DOMAIN read_data |-> read_data[k].Time],
        !.voltage_values = [k \in DOMAIN read_data |-> read_data[k].Voltage],
        !.current_values = [k \in DOMAIN read_data |-> read_data[k].Current],
        !.conductance_values =
           [k \in DOMAIN read_data |-> Rat(read_data[k].Current, slf.V_read)]]

EmptySrdpTest ==
  [stage |-> 4, n |-> 0, ans |-> "", srdp_data |-> <<>>, ltm_data |-> <<>>]

\* for idx,space_array in enumerate(self.space_arrays):
\*     srdp_data=self.run_srdp_test(space_array)
SrdpTestNext ==
  /\ pc = "srdp_run_test"
  /\ rt.n < Len(self.space_arrays)
  /\ self' = [self EXCEPT !.current_space_array_index = rt.n]
  /\ run' = [EmptySrdp EXCEPT !.space_array = self.space_arrays[rt.n + 1]]
  /\ ret' = NoReturn
  /\ pc' = "call_srdp"
  /\ UNCHANGED <<keithley, log, clock, jitter, proc, rt, gen, pts, cls>>

\* t_vals,...=self.process_measurement_data(srdp_data)
SrdpTestAfterRun ==
  /\ pc = "returned"
  /\ rt.stage = 4
  /\ self' = SrdpProcess(self, ret.value)
  /\ rt' = [rt EXCEPT !.srdp_data = ret.value, !.n = @ + 1]
  /\ pc' = "srdp_run_test"
  /\ UNCHANGED <<keithley, log, clock, jitter, run, ret, proc, gen, pts, cls>>

\* the space values typed for the LTM run; [1.0] when none or malformed
LtmInputs == {<<10>>, <<1, 2>>}

\* ans=input("Run LTM test? (y/n)"); on 'y': ltm_data=self.run_ltm_test(...)
SrdpTestAsk ==
  /\ pc = "srdp_run_test"
  /\ rt.n >= Len(self.space_arrays)
  /\ \/ /\ rt' = [rt EXCEPT !.ans = "n"]
        /\ pc' = "finished"
        /\ UNCHANGED <<run, ret>>
     \/ /\ rt' = [rt EXCEPT !.ans = "y", !.stage = 5]
        /\ \E space_vals \in LtmInputs :
             run' = [EmptyLtm EXCEPT !.space_values = space_vals]
        /\ ret' = NoReturn
        /\ pc' = "call_ltm"
  /\ UNCHANGED <<self, keithley, log, clock, jitter, proc, gen, pts, cls>>

\* t_vals,...=self.process_measurement_data(ltm_data)
SrdpTestAfterLtm ==
  /\ pc = "returned"
  /\ rt.stage = 5
  /\ self' = SrdpProcess(self, ret.value)
  /\ rt' = [rt EXCEPT !.ltm_data = ret.value]
  /\ pc' = "finished"
  /\ UNCHANGED <<keithley, log, clock, jitter, run, ret, proc, gen, pts, cls>>

SrdpRunTest ==
  SrdpTestNext \/ SrdpTestAfterRun \/ SrdpTestAsk \/ SrdpTestAfterLtm

(***************************************************************************)
(* SpecDrivers: one of the three run_test drivers, on a small              *)
(* configuration, with every run it starts.                                *)
(***************************************************************************)
SinTestConfigs ==
  { [off_time_list |-> <<0, 1>>, pulse_width_list |-> <<1>>,
     points_per_half_list |-> <<0>>],
    [off_time_list |-> <<1>>, pulse_width_list |-> <<1>>,
     points_per_half_list |-> <<2, 0>>],
    [off_time_list |-> <<0>>, pulse_width_list |-> <<1>>,
     points_per_half_list |-> <<1>>] }

SrdpTestConfigs ==
  { [space_arrays |-> << <<1>>, <<2, 1>> >>, pulse_num |-> 1],
    [space_arrays |-> << <<2>> >>, pulse_num |-> 2],
    [space_arrays |-> << <<>>, <<1>> >>, pulse_num |-> 1] }

DriverReadings == {[i |-> 12, dv |-> 0]}

InitSinTest ==
  /\ pc = "sin_run_test"
  /\ \E c \in SinTestConfigs :
       self = [DefaultSin EXCEPT !.off_time_list = c.off_time_list,
                                 !.pulse_width_list = c.pulse_width_list,
                                 !.points_per_half_list = c.points_per_half_list]
  /\ rt = EmptySinTest
  /\ run = EmptySine

InitSrdpTest ==
  /\ pc = "srdp_run_test"
  /\ \E c \in SrdpTestConfigs :
       self = [DefaultSrdp EXCEPT !.off_time = 1, !.pulse_width = 1,
                                  !.pulse_num = c.pulse_num,
                                  !.ltm_pulse_count = c.pulse_num,
                                  !.space_arrays = c.space_arrays]
  /\ rt = EmptySrdpTest
  /\ run = EmptySrdp

InitDrivers ==
  \/ InitTest
  \/ /\ InitSinTest \/ InitSrdpTest
     /\ keithley = InitKeithley
     /\ log = <<>>
     /\ clock = 0
     /\ jitter = 0
     /\ ret = NoReturn
     /\ proc = EmptyProc
     /\ gen = EmptyGen
     /\ pts = EmptyPts
     /\ cls = EmptyCls

NextDrivers ==
  \/ RunTest
  \/ RunStdpTest(TestReadingsA, TestReadingsB)
  \/ InstrumentFailure
  \/ SinRunTest
  \/ RunSineTest(DriverReadings)
  \/ SrdpRunTest
  \/ RunSrdpTest
  \/ RunLtmTest

SpecDrivers == InitDrivers /\ [][NextDrivers]_vars

(***************************************************************************)
(* Claims about the sessions the drivers open (SpecDrivers).               *)
(***************************************************************************)
Resets == {k \in DOMAIN log : log[k].op = "reset"}

Channels == {"smua", "smub"}

IsSourceOrMeasure(k) == log[k].op \in {"levelv", "measure"}

\* the reset that opened the session command k belongs to (0: none)
SessionOf(k) ==
  IF \E r \in Resets : r <= k
    THEN CHOOSE r \in Resets : r <= k /\ \A q \in Resets : q <= k => q <= r
    ELSE 0

\* the output commands of channel ch before position k
OutputsBefore(ch, k) ==
  {m \in 1..(k - 1) : log[m].op = "output" /\ log[m].ch = ch}

\* the last output command of channel ch before position k is an output-off
OffBefore(ch, k) ==
  LET o == OutputsBefore(ch, k)
  IN o # {} => log[CHOOSE m \in o : \A x \in o : x <= m].val = 0

\* C15: the sessions of the runs a protocol driver starts never overlap and
\* are shaped reset, configure, source/measure loop, output-off: the first
\* command of all is a reset, every reset is followed at once by the
\* configuration, every level set and every measurement lies after the reset
\* and configuration of its own session, and the command right before every
\* later reset is an output-off, with every channel's output off at that
\* point (and when the driver has finished).
C15_SessionsNeverOverlap ==
  /\ log # <<>> => log[1].op = "reset"
  /\ \A r \in Resets : r < Len(log) /\ log[r + 1].op = "setup"
  /\ \A k \in DOMAIN log :
       IsSourceOrMeasure(k) =>
         \E r \in 1..(k - 2) : log[r].op = "reset" /\ log[r + 1].op = "setup"
  /\ \A r \in Resets :
       r > 1 =>
         /\ \A ch \in Channels : OffBefore(ch, r)
         /\ log[r - 1].op = "output" /\ log[r - 1].val = 0
  /\ pc = "finished" => \A ch \in Channels : OffBefore(ch, Len(log) + 1)

\* a driver has finished after three sessions, each with measurements
C15_Witness ==
  /\ pc = "finished"
  /\ Cardinality(Resets) >= 3
  /\ \A r \in Resets : \E k \in DOMAIN log :
       log[k].op = "measure" /\ SessionOf(k) = r

(***************************************************************************)
(* Claims about the order of events in run_stdp_test (SpecRun).            *)
(***************************************************************************)
\* the commands of the loop and the output-offs, in the order they were sent
StepCmds ==
  SelectSeq(log, LAMBDA c : \/ c.op \in {"levelv", "measure", "append"}
                            \/ c.op = "output" /\ c.val = 0)

\* the k-th command sent since the loop began is the one the source sends there
InStepOrder(k) ==
  LET c == StepCmds[k]
      i == (k - 1) \div 5
      j == (k - 1) % 5
  IN IF i < run.length
       THEN CASE j = 0 -> c = Cmd("levelv", "smua", run.chanA_seq[i + 1])
              [] j = 1 -> c = Cmd("levelv", "smub", run.chanB_seq[i + 1])
              [] j = 2 -> c = Cmd("measure", "smua", 0)
              [] j = 3 -> c = Cmd("measure", "smub", 0)
              [] j = 4 -> c = Cmd("append", "data", i)
       ELSE /\ k = 5 * run.length + 1 => c = Cmd("output", "smua", 0)
            /\ k = 5 * run.length + 2 => c = Cmd("output", "smub", 0)
            /\ k <= 5 * run.length + 2

\* the step taken appends command c to the log
Sends(c) == log' = Append(log, c)

\* C17: every step of run_stdp_test sets the level of channel A, then that of
\* channel B, waits the dwell, reads back channel A, then channel B, then
\* appends one sample; no channel is measured before both levels of the step
\* are set, the dwell (the only wait of the loop) lies between the level of
\* channel B and the read-back of channel A, and both outputs are switched off
\* only after the sample of the last step is appended.
C17_StepOrder ==
  /\ [](\A k \in DOMAIN StepCmds : InStepOrder(k))
  /\ [][/\ clock' # clock =>
             /\ clock' > clock
             /\ log' = log
             /\ log # <<>> /\ log[Len(log)].op = "levelv"
             /\ log[Len(log)].ch = "smub"
             /\ pc' = "queryA"
        /\ Sends(Cmd("measure", "smua", 0)) => pc = "queryA" /\ clock' = clock
        /\ (pc' = "queryA" /\ pc # "queryA") => clock' > clock]_vars

\* a fault-free run of three steps has returned
C17_Witness ==
  /\ pc = "returned"
  /\ run.length = 3
  /\ Len(StepCmds) = 17
  /\ run.chanA_seq # run.chanB_seq

(***************************************************************************)
(* SpecAnyRun: one fault-free call of any of the four run functions.       *)
(***************************************************************************)
InitAnyRun == InitSingle \/ InitRun

NextAnyRun == NextSingle \/ RunStdpTest(RunReadingsA, RunReadingsB)

SpecAnyRun == InitAnyRun /\ [][NextAnyRun]_vars

(***************************************************************************)
(* Claims about the returned samples (SpecAnyRun).                         *)
(***************************************************************************)
\* the step taken is the return of a run function
Returns == pc # "returned" /\ pc' = "returned"

\* C18: a fault-free run of run_sine_test, run_srdp_test, run_ltm_test or
\* run_stdp_test collects its samples by appending only, and returns them in
\* that order with only the time column changed: the first relative time is
\* exactly 0, every later one is at least the one before it, and every other
\* column of every sample is the one that was recorded.
C18_RebasedSamples ==
  [][/\ (~Returns /\ run'.data # run.data) =>
          \/ run'.data = <<>>
          \/ /\ Len(run'.data) = Len(run.data) + 1
             /\ SubSeq(run'.data, 1, Len(run.data)) = run.data
     /\ Returns =>
          LET raw == run.data
              out == ret'.value
          IN /\ ret'.returned
             /\ Len(out) = Len(raw)
             /\ \A k \in DOMAIN out :
                  /\ DOMAIN out[k] = DOMAIN raw[k]
                  /\ \A f \in DOMAIN out[k] \ {"Time"} : out[k][f] = raw[k][f]
             /\ out # <<>> => out[1].Time = 0
             /\ \A k \in 1..(Len(out) - 1) : out[k].Time <= out[k + 1].Time]_vars

\* a sine run that began at a wall-clock time other than 0 has returned
\* at least two samples, the second later than the first
C18_Witness ==
  /\ pc = "returned"
  /\ InSineRun
  /\ Len(ret.value) >= 2
  /\ ret.value[2].Time > 0
  /\ clock > ret.value[Len(ret.value)].Time + run.off_time + 1

(***************************************************************************)
(* SpecPairs: run_test up to the pairs of its pre->post run, on one or two *)
(* timing values, with two reading levels on the channel that is read.     *)
(***************************************************************************)
PairConfigs ==
  { [spike_num |-> 1, active_num |-> 0, time_num |-> <<0, 0>>],
    [spike_num |-> 1, active_num |-> 0, time_num |-> <<2, 0>>],
    [spike_num |-> 1, active_num |-> 1, time_num |-> <<3>>] }

PairReadingsA == {12, 24}

InitPairs ==
  /\ pc = "run_test"
  /\ \E c \in PairConfigs :
       self = [DefaultSelf EXCEPT !.read_num = 1, !.spike_num = c.spike_num,
                                  !.active_num = c.active_num, !.stop_num = 0,
                                  !.time_num = c.time_num]
  /\ keithley = InitKeithley
  /\ log = <<>>
  /\ clock = 0
  /\ jitter = 0
  /\ run = EmptyRun
  /\ ret = NoReturn
  /\ proc = EmptyProc
  /\ rt = EmptyRt
  /\ gen = EmptyGen
  /\ pts = EmptyPts
  /\ cls = EmptyCls

NextPairs ==
  \/ RunTestStart
  \/ RunStdpTest(PairReadingsA, TestReadingsB)
  \/ RunTestProcessPre

SpecPairs == InitPairs /\ [][NextPairs]_vars

(***************************************************************************)
(* Claims about the pairs of a generated protocol (SpecPairs).             *)
(***************************************************************************)
\* the pairs of the pre->post run have been computed
PairsReturned == pc = "ask" /\ rt.stage = 1

\* the samples of the section of the i-th timing value: first and last
SectionFirst(i) == gen.section_start[i].pre + 1

SectionLast(i) ==
  IF i < Len(gen.section_start) THEN gen.section_start[i + 1].pre
  ELSE Len(gen.pre_seq)

\* the read block before the spikes of section i, and the one after them
ReadBlockBefore(i) == [j \in 1..self.read_num |-> SectionFirst(i) + j - 1]

ReadBlockAfter(i) ==
  [j \in 1..self.read_num |->
     SectionLast(i) - self.stop_num - self.read_num + j]

\* the relative current change between the two read blocks of section i
SectionDeltaG(i) ==
  LET col == ColumnMapping(self.pre_before_post)
  IN DeltaG(<<Mean(rt.data, ReadBlockBefore(i), col.preI_col),
              Mean(rt.data, ReadBlockAfter(i), col.preI_col)>>)[1]

\* the first spike sample of section i on the pre and on the post channel
FirstPreSpikeOf(i) == SectionFirst(i) + self.read_num

FirstPostSpikeOf(i) ==
  gen.section_start[i].post + self.read_num + self.spike_num
  + self.active_num + Max(IntOf(self.time_num[i]), 0) + 1

SectionDeltaT(i) ==
  rt.data[FirstPostSpikeOf(i)].Time - rt.data[FirstPreSpikeOf(i)].Time

\* C20: for the sequences generate_voltage_sequences builds from T timing
\* values and a fault-free run, T pairs are returned and the i-th pair holds
\* the delta_t of the spikes of section i together with the delta_g between
\* the read block before and the read block after the spikes of section i.
C20_PairsFromSameSection ==
  PairsReturned =>
    /\ Len(rt.dt) = Len(self.time_num)
    /\ Len(rt.dg) = Len(self.time_num)
    /\ \A i \in DOMAIN rt.dg :
         /\ rt.dt[i] = SectionDeltaT(i)
         /\ rt.dg[i] = SectionDeltaG(i)

\* what does hold: one pair per timing value is returned, the i-th
\* delta_t is the one of section i, and the first delta_g is the one of
\* section 1
FirstPairFromSection ==
  PairsReturned =>
    /\ Len(rt.dt) = Len(self.time_num)
    /\ Len(rt.dg) = Len(self.time_num)
    /\ \A i \in DOMAIN rt.dt : rt.dt[i] = SectionDeltaT(i)
    /\ rt.dg[1] = SectionDeltaG(1)

\* the i-th delta_g is the one between the read blocks that are i-th and
\* (i+1)-th in the whole run: for i = 2 the read block after the spikes of
\* section 1 and the read block before the spikes of section 2
SecondPairAcrossSections ==
  (PairsReturned /\ Len(self.time_num) >= 2) =>
    LET col == ColumnMapping(self.pre_before_post)
    IN rt.dg[2] = DeltaG(<<Mean(rt.data, ReadBlockAfter(1), col.preI_col),
                           Mean(rt.data, ReadBlockBefore(2), col.preI_col)>>)[1]

(***************************************************************************)
(* Claims about the output state in run_srdp_test and run_ltm_test         *)
(* (SpecSingle).                                                           *)
(***************************************************************************)
IsOutput(k, val) == IsCmd(k, "output", "smua") /\ log[k].val = val

\* the last output command before position k is an output-on
OnBefore(k) ==
  LET o == OutputsBefore("smua", k)
  IN o # {} /\ log[CHOOSE m \in o : \A x \in o : x <= m].val = 1

\* the step taken sets a level or calls measure_iv
SourcesOrMeasures ==
  /\ Len(log') = Len(log) + 1
  /\ log'[Len(log')].op \in {"levelv", "measure"}

\* C21: in run_srdp_test and run_ltm_test every level set and every
\* measure_iv call happens while the output is enabled, every output-off is
\* followed by an output-on before the next level set or measurement, and
\* when the loop has ended and the function returned the output is disabled.
C21_OutputOnWhileSourcing ==
  /\ []((InSrdpRun \/ InLtmRun) =>
          /\ \A k \in DOMAIN log : IsSourceOrMeasure(k) => OnBefore(k)
          /\ \A k \in DOMAIN log :
               IsOutput(k, 0) =>
                 \A m \in (k + 1)..Len(log) :
                   IsSourceOrMeasure(m) =>
                     \E x \in (k + 1)..(m - 1) : IsOutput(x, 1)
          /\ pc = "returned" =>
               /\ ~keithley.outA
               /\ IsOutput(Len(log), 0))
  /\ [][((InSrdpRun \/ InLtmRun) /\ SourcesOrMeasures) => keithley.outA]_vars

\* a run_srdp_test with a gap between two repetitions has returned: its
\* output was switched on at the setup, in two settles and after the gap
C21_Witness ==
  /\ InSrdpRun
  /\ pc = "returned"
  /\ Cardinality({k \in DOMAIN log : IsOutput(k, 1)}) >= 4
  /\ Cardinality({k \in DOMAIN log : IsOutput(k, 0)}) >= 4

====
